---- MODULE Spec2Model ----
(***************************************************************************)
(* Model of the dealer-offer scraper (src/scraper): the batch driver       *)
(* main/scrape_dealer, the extraction orchestrator extract_offers with the *)
(* platform (CSS) extractors and the generative fallback, the validator /  *)
(* normalizer, and the storage writer save_offers.                         *)
(*                                                                         *)
(* Encoding of Python values.  A dict is a TLA+ function whose DOMAIN is   *)
(* the set of keys present.  A value is a tagged record:                   *)
(*   Null         Python None (JSON null)                                  *)
(*   Num(n)       a number; money in whole dollars, apr and confidence in  *)
(*                hundredths (0.85 is Num(85), 4.99% is Num(499))          *)
(*   Str(s)       a string                                                 *)
(* Library code (BeautifulSoup, requests, Playwright, OpenAI, SQLAlchemy)  *)
(* is the environment: what it hands to the program is drawn from the      *)
(* finite sets below.                                                      *)
(***************************************************************************)
EXTENDS Integers, Sequences, FiniteSets, TLC

\* ------------------------------------------------------------------------
\* Python values
\* ------------------------------------------------------------------------
Null == [t |-> "null"]

Num(n) == [t |-> "num", v |-> n]

Str(s) == [t |-> "str", v |-> s]

IsNum(x) == x.t = "num"

IsStr(x) == x.t = "str"

\* Python truthiness of a value: None, 0 and "" are falsy
Truthy(x) == /\ x # Null
             /\ ~(IsNum(x) /\ x.v = 0)
             /\ ~(IsStr(x) /\ x.v = "")

\* dict.get(key) : None when the key is missing
Get(d, k) == IF k \in DOMAIN d THEN d[k] ELSE Null

\* dict.get(key, default)
GetD(d, k, default) == IF k \in DOMAIN d THEN d[k] ELSE default

\* ------------------------------------------------------------------------
\* Python string operations used by the code
\* ------------------------------------------------------------------------
UpperChars == <<"A","B","C","D","E","F","G","H","I","J","K","L","M",
                "N","O","P","Q","R","S","T","U","V","W","X","Y","Z">>

LowerChars == <<"a","b","c","d","e","f","g","h","i","j","k","l","m",
                "n","o","p","q","r","s","t","u","v","w","x","y","z">>

LowerChar(c) == IF \E i \in 1..26 : UpperChars[i] = c
                THEN LowerChars[CHOOSE i \in 1..26 : UpperChars[i] = c]
                ELSE c

RECURSIVE Lower(_)
\* str.lower(), character by character (the string is split in halves to
\* keep the recursion shallow)
Lower(s) == IF Len(s) = 0 THEN ""
            ELSE IF Len(s) = 1 THEN LowerChar(s)
            ELSE Lower(SubSeq(s, 1, Len(s) \div 2))
                 \o Lower(SubSeq(s, Len(s) \div 2 + 1, Len(s)))

\* the characters str.strip() and the pattern \s treat as whitespace
IsSpace(c) == c \in {" ", "\n", "\t"}

RECURSIVE Strip(_)
\* str.strip()
Strip(s) == IF Len(s) = 0 THEN ""
            ELSE IF IsSpace(SubSeq(s, 1, 1)) THEN Strip(SubSeq(s, 2, Len(s)))
            ELSE IF IsSpace(SubSeq(s, Len(s), Len(s))) THEN Strip(SubSeq(s, 1, Len(s) - 1))
            ELSE s

\* str.startswith
StartsWith(s, prefix) == Len(s) >= Len(prefix) /\ SubSeq(s, 1, Len(prefix)) = prefix

RECURSIVE SkipSpace(_)
\* the text after its leading whitespace (the match of \s*)
SkipSpace(s) == IF Len(s) > 0 /\ IsSpace(SubSeq(s, 1, 1))
                THEN SkipSpace(SubSeq(s, 2, Len(s))) ELSE s

RECURSIVE RemoveChars(_, _)
\* chained str.replace(c, "") for the characters of cs
RemoveChars(s, cs) ==
    IF Len(s) = 0 THEN ""
    ELSE IF Len(s) = 1 THEN (IF s \in cs THEN "" ELSE s)
    ELSE RemoveChars(SubSeq(s, 1, Len(s) \div 2), cs)
         \o RemoveChars(SubSeq(s, Len(s) \div 2 + 1, Len(s)), cs)

\* Python "t in s" for strings
Contains(s, t) == \/ Len(t) = 0
                  \/ \E i \in 1..(Len(s) - Len(t) + 1) : SubSeq(s, i, i + Len(t) - 1) = t

Min(S) == CHOOSE x \in S : \A y \in S : x <= y

\* a function written out as an explicit table of its values
Tabulate(f) == f @@ <<>>

Abs(n) == IF n < 0 THEN 0 - n ELSE n

\* ------------------------------------------------------------------------
\* Number parsing: float(x) / int(x) on a value.  Strings of decimal digits
\* parse to their number; every other string is a ValueError, None is a
\* TypeError (the domains below hold no signed, fractional or padded numeric
\* strings).
\* ------------------------------------------------------------------------
Digits == <<"0","1","2","3","4","5","6","7","8","9">>

IsDigit(c) == \E i \in 1..10 : Digits[i] = c

DigitVal(c) == (CHOOSE i \in 1..10 : Digits[i] = c) - 1

RECURSIVE AllDigits(_)
AllDigits(s) == \/ Len(s) = 0
                \/ /\ IsDigit(SubSeq(s, 1, 1))
                   /\ AllDigits(SubSeq(s, 2, Len(s)))

RECURSIVE DigitsVal(_)
DigitsVal(s) == IF Len(s) = 0 THEN 0
                ELSE DigitsVal(SubSeq(s, 1, Len(s) - 1)) * 10
                     + DigitVal(SubSeq(s, Len(s), Len(s)))

\* does float(x) / int(x) succeed
CanNum(x) == \/ IsNum(x)
             \/ IsStr(x) /\ Len(x.v) > 0 /\ AllDigits(x.v)

\* the number float(x) / int(x) yields when it succeeds
ToNum(x) == IF IsNum(x) THEN x.v ELSE DigitsVal(x.v)

\* ------------------------------------------------------------------------
\* scraper/config.py and scraper/validators.py
\* ------------------------------------------------------------------------
TOYOTA_MODELS == <<"4Runner", "bZ4X", "Camry", "Corolla", "Corolla Cross",
                   "Crown", "GR86", "GR Corolla", "GR Supra", "Grand Highlander",
                   "Highlander", "Land Cruiser", "Mirai", "Prius", "RAV4",
                   "Sequoia", "Sienna", "Tacoma", "Tundra", "Venza">>

HONDA_MODELS == <<"Accord", "Accord Hybrid", "Civic", "Civic Hybrid", "Civic Hatchback",
                  "CR-V", "CR-V Hybrid", "HR-V", "Passport", "Pilot",
                  "Prologue", "Ridgeline", "Odyssey", "Insight">>

TESLA_MODELS == <<"Model 3", "Model Y", "Model S", "Model X", "Cybertruck">>

ALL_MODELS == TOYOTA_MODELS \o HONDA_MODELS \o TESLA_MODELS

\* known_model.lower() for every vocabulary entry
ALL_MODELS_lower == Tabulate([i \in 1..Len(ALL_MODELS) |-> Lower(ALL_MODELS[i])])

VALID_TERMS == <<24, 27, 30, 33, 36, 39, 42, 48, 60, 72>>

CURRENT_YEAR == 2026

\* the valid years widened to two years either side
VALID_YEARS_wide == (CURRENT_YEAR - 2)..(CURRENT_YEAR + 2)

VALID_YEARS == {CURRENT_YEAR, CURRENT_YEAR + 1, CURRENT_YEAR - 1}

VALID_MAKES == <<"Toyota", "Honda", "Tesla">>

\* the variations table of normalize_model_name, in dict order
variations == << <<"rav 4", "RAV4">>, <<"rav-4", "RAV4">>,
                 <<"4 runner", "4Runner">>, <<"4-runner", "4Runner">>,
                 <<"gr 86", "GR86">>, <<"gr-86", "GR86">>,
                 <<"gr supra", "GR Supra">>, <<"gr-supra", "GR Supra">>,
                 <<"corolla cross", "Corolla Cross">>,
                 <<"grand highlander", "Grand Highlander">>,
                 <<"land cruiser", "Land Cruiser">>,
                 <<"cr-v", "CR-V">>, <<"crv", "CR-V">>,
                 <<"hr-v", "HR-V">>, <<"hrv", "HR-V">>,
                 <<"model3", "Model 3">>, <<"modely", "Model Y">>,
                 <<"models", "Model S">>, <<"modelx", "Model X">> >>

\* normalize_model_name on a string: the first vocabulary entry that equals
\* the lowered input or is a substring of it or contains it, else the first
\* matching variation, else None
normalize_model_str(model) ==
    LET model_lower == Strip(Lower(model))
        known == {i \in 1..Len(ALL_MODELS) :
                     \/ ALL_MODELS_lower[i] = model_lower
                     \/ Contains(ALL_MODELS_lower[i], model_lower)
                     \/ Contains(model_lower, ALL_MODELS_lower[i])}
        vars == {i \in 1..Len(variations) : Contains(model_lower, variations[i][1])}
    IN IF known # {} THEN Str(ALL_MODELS[Min(known)])
       ELSE IF vars # {} THEN Str(variations[Min(vars)][2])
       ELSE Null

\* model.lower() raises AttributeError on a truthy value that is no string
normalize_model_raises(model) == Truthy(model) /\ ~IsStr(model)

normalize_model_name(model) ==
    IF ~Truthy(model) THEN Null ELSE normalize_model_str(model.v)

RECURSIVE TitleFrom(_, _)
\* str.title(): the first letter of every run of letters upper-cased, the
\* others lower-cased
TitleFrom(s, inWord) ==
    IF Len(s) = 0 THEN ""
    ELSE LET c == SubSeq(s, 1, 1)
             lo == LowerChar(c)
             isLetter == \E i \in 1..26 : LowerChars[i] = lo
             up == IF isLetter
                   THEN UpperChars[CHOOSE i \in 1..26 : LowerChars[i] = lo]
                   ELSE c
         IN (IF inWord THEN lo ELSE up) \o TitleFrom(SubSeq(s, 2, Len(s)), isLetter)

normalize_make_raises(make) == Truthy(make) /\ ~IsStr(make)

normalize_make(make) ==
    IF ~Truthy(make) THEN Str("Toyota")
    ELSE LET make_lower == Strip(Lower(make.v))
             hit == {i \in 1..Len(VALID_MAKES) : Lower(VALID_MAKES[i]) = make_lower}
         IN IF hit # {} THEN Str(VALID_MAKES[Min(hit)])
            ELSE Str(TitleFrom(make.v, FALSE))

\* the closest term taken among the entries not above the term only
closest_term_below(term) ==
    LET below == {k \in 1..Len(VALID_TERMS) : VALID_TERMS[k] <= term}
    IN IF below = {} THEN VALID_TERMS[1]
       ELSE VALID_TERMS[CHOOSE k \in below : \A j \in below : j <= k]

\* min(VALID_TERMS, key=lambda x: abs(x - term)): the first entry at minimal
\* distance
closest_term(term) ==
    LET best == Min({Abs(VALID_TERMS[i] - term) : i \in 1..Len(VALID_TERMS)})
    IN VALID_TERMS[Min({i \in 1..Len(VALID_TERMS) : Abs(VALID_TERMS[i] - term) = best})]

InTerms(term) == \E i \in 1..Len(VALID_TERMS) : VALID_TERMS[i] = term

\* validate_offer raises where normalize_model_name does
validate_raises(offer) ==
    LET model == Get(offer, "model") IN normalize_model_raises(model)

\* the error list of validate_offer, in the order the checks run
validate_errors(offer) ==
    LET monthly == Get(offer, "monthly_payment")
        down == Get(offer, "down_payment")
        term == Get(offer, "term_months")
        year == Get(offer, "year")
        model == Get(offer, "model")
        confidence == GetD(offer, "confidence", Num(80))
        offer_type == GetD(offer, "offer_type", Str("lease"))
        e1 == IF ~Truthy(model) THEN <<"Missing model">> ELSE <<>>
        e2 == IF ~Truthy(year) THEN <<"Missing year">> ELSE <<>>
        e3 == IF monthly = Null THEN <<>>
              ELSE IF ~CanNum(monthly) THEN <<"Invalid monthly_payment">>
              ELSE IF ToNum(monthly) < 50 \/ ToNum(monthly) > 2000
                   THEN <<"monthly_payment out of range">> ELSE <<>>
        e4 == IF down = Null THEN <<>>
              ELSE IF ~CanNum(down) THEN <<"Invalid down_payment">>
              ELSE IF ToNum(down) < 0 \/ ToNum(down) > 20000
                   THEN <<"down_payment out of range">> ELSE <<>>
        e5 == IF term = Null THEN <<>>
              ELSE IF ~CanNum(term) THEN <<"Invalid term_months">>
              ELSE IF InTerms(ToNum(term)) THEN <<>>
              ELSE IF Abs(closest_term(ToNum(term)) - ToNum(term)) <= 3 THEN <<>>
              ELSE <<"Invalid term_months">>
        e6 == IF year = Null THEN <<>>
              ELSE IF ~CanNum(year) THEN <<"Invalid year">>
              ELSE IF ToNum(year) \notin VALID_YEARS THEN <<"Invalid year">> ELSE <<>>
        e7 == IF Truthy(model) /\ normalize_model_name(model) = Null
              THEN <<"Unknown model">> ELSE <<>>
        e8 == IF CanNum(confidence) /\ ToNum(confidence) < 50
              THEN <<"Confidence too low">> ELSE <<>>
        e9 == IF offer_type \notin {Str("lease"), Str("finance")}
              THEN <<"Invalid offer_type">> ELSE <<>>
    IN e1 \o e2 \o e3 \o e4 \o e5 \o e6 \o e7 \o e8 \o e9

\* is_valid of validate_offer
validate_offer(offer) == Len(validate_errors(offer)) = 0

\* "float(offer[k]) if offer.get(k) else None" inside try/except
clean_num(offer, k) ==
    LET x == Get(offer, k)
    IN IF Truthy(x) /\ CanNum(x) THEN Num(ToNum(x)) ELSE Null

\* "offer.get(k) or None"
or_none(offer, k) == LET x == Get(offer, k) IN IF Truthy(x) THEN x ELSE Null

\* clean_offer raises where a .lower() is applied to a value that is no string
clean_raises(offer) ==
    \/ normalize_make_raises(GetD(offer, "make", Str("Toyota")))
    \/ normalize_model_raises(GetD(offer, "model", Str("")))
    \/ ~IsStr(GetD(offer, "offer_type", Str("lease")))

clean_offer(offer) ==
    LET year == GetD(offer, "year", Num(CURRENT_YEAR))
        model == GetD(offer, "model", Str(""))
        norm == normalize_model_name(model)
        offer_type == Lower(GetD(offer, "offer_type", Str("lease")).v)
        term0 == clean_num(offer, "term_months")
        term == IF term0 # Null /\ term0.v # 0 /\ ~InTerms(term0.v)
                THEN Num(closest_term(term0.v)) ELSE term0
        conf == GetD(offer, "confidence", Num(80))
    IN [year |-> IF CanNum(year) THEN Num(ToNum(year)) ELSE Num(CURRENT_YEAR),
        make |-> normalize_make(GetD(offer, "make", Str("Toyota"))),
        image_url |-> Get(offer, "image_url"),
        model |-> IF Truthy(norm) THEN norm ELSE model,
        trim |-> or_none(offer, "trim"),
        offer_type |-> IF offer_type \in {"lease", "finance"}
                       THEN Str(offer_type) ELSE Str("lease"),
        monthly_payment |-> clean_num(offer, "monthly_payment"),
        down_payment |-> clean_num(offer, "down_payment"),
        term_months |-> term,
        annual_mileage |-> clean_num(offer, "annual_mileage"),
        apr |-> clean_num(offer, "apr"),
        msrp |-> clean_num(offer, "msrp"),
        selling_price |-> clean_num(offer, "selling_price"),
        offer_end_date |-> or_none(offer, "offer_end_date"),
        disclaimer |-> or_none(offer, "disclaimer"),
        confidence |-> IF CanNum(conf) THEN Num(ToNum(conf)) ELSE Num(80)]

\* ------------------------------------------------------------------------
\* scraper/css_extractors.py
\*
\* A page is what BeautifulSoup and the field parsers observe of the markup:
\*   markers   the platform marker substrings present in the raw html
\*   cards     per platform, the offer containers its selector matches, in
\*             page order; a card holds what the parsers read from it
\*   images    the <img> elements of the page
\*   text      the visible text clean_html and truncate_text produce
\*   soup_raises  the html parser raises on this markup
\* A card:
\*   vehicle_ok   the title text exists and has at least 5 characters
\*   year, make, model, trim   result of parse_year_make_model on the title
\*   lease_word   the text that decides the offer type contains "lease"
\*   finance_word the texts of the container contain "finance" (read by no
\*                extractor)
\*   price_el     the price element exists
\*   price_pct    the price text contains "%"
\*   price_num    parse_price of the price text (a percentage in hundredths)
\*   subtext_apr  the price subtext contains "apr"
\*   offerrate    the card has an .offerrate element (DealerInspire)
\*   text_num     the payment the text patterns of _extract_di_text read
\*   down, term, mileage, expiration, image_url   parsed details
\*   id           the id attribute captured as source_anchor
\*   raises       parsing this card raises inside the per-card try
\* ------------------------------------------------------------------------
make_offer_dict(year, make, model, trim, offer_type, monthly_payment, down_payment, term_months, annual_mileage, apr, offer_end_date, disclaimer, image_url, confidence, source_anchor) ==
    [year |-> IF Truthy(year) THEN year ELSE Num(CURRENT_YEAR),
     make |-> make,
     model |-> model,
     trim |-> trim,
     offer_type |-> offer_type,
     monthly_payment |-> monthly_payment,
     down_payment |-> down_payment,
     term_months |-> IF Truthy(term_months) THEN term_months ELSE Num(36),
     annual_mileage |-> annual_mileage,
     apr |-> apr,
     msrp |-> Null,
     selling_price |-> Null,
     offer_end_date |-> offer_end_date,
     disclaimer |-> disclaimer,
     confidence |-> confidence,
     image_url |-> image_url,
     source_anchor |-> source_anchor,
     extraction_method |-> Str("css")]

RECURSIVE dedupe_from(_, _)
\* the loop of dedupe_offers: seen is the set of keys met so far
dedupe_from(offers, seen) ==
    IF Len(offers) = 0 THEN <<>>
    ELSE LET o == Head(offers)
             key == <<o["year"], o["model"], o["monthly_payment"]>>
         IN IF key \notin seen
            THEN <<o>> \o dedupe_from(Tail(offers), seen \cup {key})
            ELSE dedupe_from(Tail(offers), seen)

RECURSIVE dedupe_by_model(_, _)
\* dedupe_offers with the payment left out of the key
dedupe_by_model(offers, seen) ==
    IF Len(offers) = 0 THEN <<>>
    ELSE LET o == Head(offers)
             key == <<o["year"], o["model"]>>
         IN IF key \notin seen
            THEN <<o>> \o dedupe_by_model(Tail(offers), seen \cup {key})
            ELSE dedupe_by_model(Tail(offers), seen)

\* dedupe_offers keyed on (year, model)
dedupe_offers_by_model(offers) == dedupe_by_model(offers, {})

dedupe_offers(offers) == dedupe_from(offers, {})

RECURSIVE RunEnd(_, _, _)
\* the last position of the run of characters of cs that starts at i
RunEnd(s, i, cs) ==
    IF i < Len(s) /\ SubSeq(s, i + 1, i + 1) \in cs THEN RunEnd(s, i + 1, cs) ELSE i

\* the starts of the runs of characters of cs in s
RunStarts(s, cs) ==
    {i \in 1..Len(s) : SubSeq(s, i, i) \in cs /\ (i = 1 \/ SubSeq(s, i - 1, i - 1) \notin cs)}

DigitChars == {"0", "1", "2", "3", "4", "5", "6", "7", "8", "9"}

\* parse_price(text), in hundredths: the commas are removed and the pattern
\* \$?([\d,]+(?:\.\d{2})?) is searched, so the match is the first run of
\* digits, with a following "." and two digits when they are there
parse_price(text) ==
    LET t == RemoveChars(text, {","})
        starts == RunStarts(t, DigitChars)
    IN IF starts = {} THEN Null
       ELSE LET i == Min(starts)
                j == RunEnd(t, i, DigitChars)
                cents == /\ j + 3 <= Len(t)
                         /\ SubSeq(t, j + 1, j + 1) = "."
                         /\ SubSeq(t, j + 2, j + 2) \in DigitChars
                         /\ SubSeq(t, j + 3, j + 3) \in DigitChars
            IN Num(DigitsVal(SubSeq(t, i, j)) * 100
                   + (IF cents THEN DigitsVal(SubSeq(t, j + 2, j + 3)) ELSE 0))

\* the first run of characters of cs in text that is followed, after
\* optional whitespace, by one of the words (case ignored); "" without one
run_before(text, cs, words) ==
    LET low == Lower(text)
        follows(j) == \E w \in words : StartsWith(SkipSpace(SubSeq(low, j + 1, Len(low))), w)
        hits == {i \in RunStarts(text, cs) : follows(RunEnd(text, i, cs))}
    IN IF hits = {} THEN ""
       ELSE SubSeq(text, Min(hits), RunEnd(text, Min(hits), cs))

\* parse_term(text): the pattern (\d+)\s*months?
parse_term(text) ==
    LET digits == run_before(text, DigitChars, {"month"})
    IN IF digits = "" THEN Null ELSE Num(DigitsVal(digits))

\* the down payment of extract_octane and extract_dealeron_gemini, in
\* hundredths: the pattern \$?([\d,]+)\s*(?:due at signing|at signing), its
\* group given to parse_price
down_at_signing(text) ==
    LET amount == run_before(text, DigitChars \cup {","}, {"due at signing", "at signing"})
    IN IF amount = "" THEN Null ELSE parse_price(amount)

\* octane_card without the skip of a container giving no payment and no rate
octane_card_no_skip(c) ==
    IF c.raises \/ ~c.vehicle_ok \/ ~c.price_el THEN <<>>
    ELSE LET finance == c.subtext_apr \/ c.price_pct
             offer_type == IF finance THEN Str("finance") ELSE Str("lease")
             apr == IF finance THEN c.price_num ELSE Null
             monthly_payment == IF finance THEN Null ELSE c.price_num
         IN << make_offer_dict(c.year, c.make, c.model, c.trim, offer_type,
                               monthly_payment, c.down, c.term, c.mileage, apr,
                               Null, Null, c.image_url, Num(85), c.id) >>

\* the candidates one Octane title element contributes (none or one)
octane_card(c) ==
    IF c.raises \/ ~c.vehicle_ok \/ ~c.price_el THEN <<>>
    ELSE LET finance == c.subtext_apr \/ c.price_pct
             offer_type == IF finance THEN Str("finance") ELSE Str("lease")
             apr == IF finance THEN c.price_num ELSE Null
             monthly_payment == IF finance THEN Null ELSE c.price_num
         IN IF monthly_payment = Null /\ apr = Null THEN <<>>
            ELSE << make_offer_dict(c.year, c.make, c.model, c.trim, offer_type,
                                    monthly_payment, c.down, c.term, c.mileage, apr,
                                    Null, Null, c.image_url, Num(85), c.id) >>

\* the candidates one DealerOn/Gemini banner contributes
dealeron_card(c) ==
    IF c.raises \/ ~c.vehicle_ok \/ ~c.price_el \/ ~Truthy(c.price_num) THEN <<>>
    ELSE << make_offer_dict(c.year, c.make, c.model, c.trim,
                            IF c.lease_word THEN Str("lease") ELSE Str("finance"),
                            c.price_num, c.down, c.term, Null, Null,
                            c.expiration, c.disclaimer, c.image_url, Num(85), c.id) >>

\* rate_text is "" without an .offerrate element, and then holds no payment
_extract_di_structured(c) ==
    IF ~c.offerrate \/ ~Truthy(c.price_num) THEN <<>>
    ELSE << make_offer_dict(c.year, c.make, c.model, c.trim,
                            IF c.lease_word THEN Str("lease") ELSE Str("finance"),
                            c.price_num, c.down, c.term, c.mileage, Null,
                            c.expiration, c.disclaimer, c.image_url, Num(85), c.id) >>

_extract_di_text(c) ==
    IF c.text_num = Null THEN <<>>
    ELSE << make_offer_dict(c.year, c.make, c.model, c.trim,
                            IF c.lease_word THEN Str("lease") ELSE Str("finance"),
                            c.text_num, c.down, c.term, c.mileage, Null,
                            c.expiration, c.disclaimer, c.image_url, Num(80), c.id) >>

\* the candidates one DealerInspire card contributes
dealerinspire_card(c) ==
    IF c.raises THEN <<>>
    ELSE IF c.offerrate THEN _extract_di_structured(c)
    ELSE _extract_di_text(c)

RECURSIVE FlatMapCards_abort(_, _)
\* the per-container loop with the try around the whole loop: a container
\* that raises ends it
FlatMapCards_abort(platform, cards) ==
    IF Len(cards) = 0 \/ Head(cards).raises THEN <<>>
    ELSE (CASE platform = "octane" -> octane_card(Head(cards))
            [] platform = "dealeron_gemini" -> dealeron_card(Head(cards))
            [] OTHER -> dealerinspire_card(Head(cards)))
         \o FlatMapCards_abort(platform, Tail(cards))

RECURSIVE FlatMapCards(_, _)
\* the per-container loop of a platform extractor
FlatMapCards(platform, cards) ==
    IF Len(cards) = 0 THEN <<>>
    ELSE (CASE platform = "octane" -> octane_card(Head(cards))
            [] platform = "dealeron_gemini" -> dealeron_card(Head(cards))
            [] OTHER -> dealerinspire_card(Head(cards)))
         \o FlatMapCards(platform, Tail(cards))

extract_octane(page) == dedupe_offers(FlatMapCards("octane", page.cards["octane"]))

extract_dealeron_gemini(page) ==
    dedupe_offers(FlatMapCards("dealeron_gemini", page.cards["dealeron_gemini"]))

extract_dealerinspire(page) ==
    dedupe_offers(FlatMapCards("dealerinspire", page.cards["dealerinspire"]))

NoPlatform == "none"

detect_platform(page) ==
    IF "octane-specials-css" \in page.markers THEN "octane"
    ELSE IF /\ "vehicle-specials-banner" \in page.markers
            /\ "vehicle-specials-vehiclename" \in page.markers THEN "dealeron_gemini"
    ELSE IF /\ "special-offer" \in page.markers
            /\ ("offerrate" \in page.markers \/ "offer-content" \in page.markers)
         THEN "dealerinspire"
    ELSE NoPlatform

DEALER_PLATFORM_OVERRIDES ==
    [s \in {"longo-toyota", "toyota-downtown-la", "north-hollywood-toyota",
            "culver-city-toyota", "autonation-toyota-cerritos",
            "airport-marina-honda", "galpin-honda", "goudy-honda",
            "norm-reeves-honda-cerritos"} |->
        CASE s = "longo-toyota" -> "octane"
          [] s \in {"toyota-downtown-la", "north-hollywood-toyota"} -> "dealeron_gemini"
          [] OTHER -> "dealerinspire"]

has_css_extractor(dealer_slug) == dealer_slug \in DOMAIN DEALER_PLATFORM_OVERRIDES

\* extract_with_css with detection consulted before the override
extract_with_css_detect_first(dealer_slug, page) ==
    LET platform == IF detect_platform(page) # NoPlatform
                    THEN detect_platform(page)
                    ELSE IF dealer_slug \in DOMAIN DEALER_PLATFORM_OVERRIDES
                    THEN DEALER_PLATFORM_OVERRIDES[dealer_slug]
                    ELSE NoPlatform
    IN IF platform = NoPlatform THEN <<>>
       ELSE IF page.soup_raises THEN <<>>
       ELSE CASE platform = "octane" -> extract_octane(page)
              [] platform = "dealeron_gemini" -> extract_dealeron_gemini(page)
              [] OTHER -> extract_dealerinspire(page)

extract_with_css(dealer_slug, page) ==
    LET platform == IF dealer_slug \in DOMAIN DEALER_PLATFORM_OVERRIDES
                    THEN DEALER_PLATFORM_OVERRIDES[dealer_slug]
                    ELSE detect_platform(page)
    IN IF platform = NoPlatform THEN <<>>
       ELSE IF page.soup_raises THEN <<>>
       ELSE CASE platform = "octane" -> extract_octane(page)
              [] platform = "dealeron_gemini" -> extract_dealeron_gemini(page)
              [] OTHER -> extract_dealerinspire(page)

\* ------------------------------------------------------------------------
\* scraper/extractor.py
\* ------------------------------------------------------------------------
\* the model list of extractor.py used for image matching
IMAGE_MODELS == <<"4Runner", "bZ4X", "Camry", "Corolla", "Corolla Cross",
                  "Crown", "GR86", "GR Corolla", "GR Supra", "Grand Highlander",
                  "Highlander", "Land Cruiser", "Mirai", "Prius", "RAV4",
                  "Sequoia", "Sienna", "Tacoma", "Tundra", "Venza",
                  "Accord", "Civic", "CR-V", "HR-V", "Passport", "Pilot",
                  "Prologue", "Ridgeline", "Odyssey", "Insight",
                  "Model 3", "Model Y", "Model S", "Model X", "Cybertruck">>

\* model.lower().replace(" ", "")
image_key(model) == RemoveChars(Lower(model), {" "})

\* does the image name the model: model_lower in img_text without " ", "-", "_"
image_names(img, model) ==
    LET img_text == Lower(img.src \o " " \o img.alt \o " " \o img.title)
    IN Contains(RemoveChars(img_text, {" ", "-", "_"}), image_key(model))

image_hint(img) == Contains(Lower(img.src), "large") \/ Contains(Lower(img.src), "full")

\* extract_vehicle_images: for every model key the image the loop leaves in
\* model_images: the first image naming the model, replaced by every later
\* one whose src carries a quality hint
extract_vehicle_images(page) ==
    LET usable(i) == ~page.images[i].small
        hits(m) == {i \in 1..Len(page.images) :
                        usable(i) /\ image_names(page.images[i], IMAGE_MODELS[m])}
        found == {m \in 1..Len(IMAGE_MODELS) : hits(m) # {}}
        keys == {image_key(IMAGE_MODELS[m]) : m \in found}
        pick(m) == LET hinted == {i \in hits(m) : i # Min(hits(m)) /\ image_hint(page.images[i])}
                   IN IF hinted = {} THEN Min(hits(m))
                      ELSE CHOOSE i \in hinted : \A j \in hinted : j <= i
    IN [k \in keys |->
          LET m == Min({n \in found : image_key(IMAGE_MODELS[n]) = k})
          IN page.images[pick(m)].src]

OFFER_KEYWORDS == <<"/mo", "/month", "per month", "monthly",
                    "lease", "finance", "apr", "due at signing",
                    "$2", "$3", "$4", "$5">>

MIN_OFFER_KEYWORDS == 3

MIN_TEXT_CHARS == 100

\* count_found of has_offer_indicators: the number of keywords of the list
\* that occur in the lowered text
keyword_count(text) ==
    LET text_lower == Lower(text)
    IN Cardinality({i \in 1..Len(OFFER_KEYWORDS) : Contains(text_lower, Lower(OFFER_KEYWORDS[i]))})

\* has_offer_indicators satisfied by a single keyword
has_offer_indicators_any(text) == keyword_count(text) >= 1

\* the number of places of s at which t occurs
Occurrences(s, t) ==
    Cardinality({i \in 1..(Len(s) - Len(t) + 1) : SubSeq(s, i, i + Len(t) - 1) = t})

\* the occurrences of all keywords in the lowered text, repeats included
keyword_occurrences(text) ==
    LET text_lower == Lower(text)
        RECURSIVE Sum(_)
        Sum(i) == IF i = 0 THEN 0
                  ELSE Sum(i - 1) + Occurrences(text_lower, Lower(OFFER_KEYWORDS[i]))
    IN Sum(Len(OFFER_KEYWORDS))

\* has_offer_indicators counting every occurrence of a keyword
has_offer_indicators_occurrences(text) == keyword_occurrences(text) >= MIN_OFFER_KEYWORDS

has_offer_indicators(text) == keyword_count(text) >= MIN_OFFER_KEYWORDS

\* A backend reply is described by
\*   fence  "none": no code fence; "json": wrapped in a fence opened with the
\*          language tag json; "plain": wrapped in a fence with no language
\*          tag; "tight": a json fence with no line breaks inside; "prose": a
\*          json fence after a sentence of prose
\*   shape  "list": the JSON text is an array; "offers_obj": an object with
\*          an "offers" key; "other_obj": another JSON value; "invalid": not
\*          JSON
\*   items  the elements of the array (or of the "offers" value)
\* The three backquotes of a fence are written as three apostrophes, a TLA+
\* string holding no backquote.
FENCE == "'''"

RECURSIVE ItemsText(_)
\* the JSON text of the elements, each object abbreviated to {..}
ItemsText(items) ==
    IF Len(items) = 0 THEN ""
    ELSE IF Len(items) = 1 THEN "{..}"
    ELSE "{..}, " \o ItemsText(Tail(items))

\* the JSON text of the value a reply carries
JsonBody(shape, items) ==
    CASE shape = "list" -> "[" \o ItemsText(items) \o "]"
      [] shape = "offers_obj" -> "{\"offers\": [" \o ItemsText(items) \o "]}"
      [] shape = "other_obj" -> "{\"error\": \"no offers\"}"
      [] OTHER -> "I could not find any offers on this page."

\* response.choices[0].message.content for a reply
response_text(reply) ==
    LET body == JsonBody(reply.shape, reply.items)
    IN CASE reply.fence = "none" -> body
         [] reply.fence = "json" -> FENCE \o "json\n" \o body \o "\n" \o FENCE \o "\n"
         [] reply.fence = "plain" -> FENCE \o "\n" \o body \o "\n" \o FENCE
         [] reply.fence = "tight" -> FENCE \o "json" \o body \o FENCE
         [] OTHER -> "Here are the offers:\n" \o FENCE \o "json\n" \o body \o "\n" \o FENCE

\* re.sub of the opening fence pattern ^(fence)json?\s*\n? by "": the pattern
\* needs the letters jso after the fence, the n is optional
sub_opening_fence(text) ==
    IF StartsWith(text, FENCE \o "json") THEN SkipSpace(SubSeq(text, 8, Len(text)))
    ELSE IF StartsWith(text, FENCE \o "jso") THEN SkipSpace(SubSeq(text, 7, Len(text)))
    ELSE text

\* re.sub of the closing fence pattern \n?(fence)\s*$ by "": a fence ending
\* the stripped text, with the line break before it
sub_closing_fence(text) ==
    LET n == Len(text)
    IN IF n >= 4 /\ SubSeq(text, n - 3, n) = "\n" \o FENCE THEN SubSeq(text, 1, n - 4)
       ELSE IF n >= 3 /\ SubSeq(text, n - 2, n) = FENCE THEN SubSeq(text, 1, n - 3)
       ELSE text

\* json.loads(text) for a text taken from the reply: the reply's shape when
\* the text is the JSON text of its value, "invalid" (JSONDecodeError) for
\* any other text
json_loads(text, reply) ==
    IF reply.shape # "invalid" /\ Strip(text) = JsonBody(reply.shape, reply.items)
    THEN reply.shape ELSE "invalid"

parse_json_response(reply) ==
    LET stripped == Strip(response_text(reply))
        text == IF StartsWith(stripped, FENCE)
                THEN sub_closing_fence(sub_opening_fence(stripped))
                ELSE stripped
        loaded == json_loads(text, reply)
    IN IF loaded = "list" THEN reply.items
       ELSE IF loaded = "offers_obj" THEN reply.items
       ELSE <<>>

\* offer.get("model", "").lower() raises on a model that is no string
attach_raises(offer) == ~IsStr(GetD(offer, "model", Str("")))

\* one iteration of the image loop of extract_offers
attach_image(offer, model_images) ==
    LET model == image_key(GetD(offer, "model", Str("")).v)
    IN IF model \in DOMAIN model_images
       THEN ("image_url" :> Str(model_images[model])) @@ offer
       ELSE offer

\* extract_offers(html, dealer_name, base_url, dealer_slug, default_make) with
\* the generative backend's behaviour for this call:
\*   backend.fails   the API call raises (network error, timeout)
\*   backend.reply   the reply otherwise
\* Result: offers  the returned list
\*         calls   the number of backend invocations made
\*         raised  an exception left extract_offers
\*         path    the return statement taken
\* extract_offers with the structural path tried for overridden dealers only
extract_offers_override_only(page, dealer_slug, backend) ==
    LET can_css == dealer_slug # "" /\ has_css_extractor(dealer_slug)
        css == IF can_css THEN extract_with_css(dealer_slug, page) ELSE <<>>
        parsed == parse_json_response(backend.reply)
    IN IF Len(css) > 0
       THEN [offers |-> css, calls |-> 0, raised |-> FALSE, path |-> "css"]
       ELSE IF page.soup_raises
       THEN [offers |-> <<>>, calls |-> 0, raised |-> TRUE, path |-> "raise"]
       ELSE IF Len(page.text) < MIN_TEXT_CHARS
       THEN [offers |-> <<>>, calls |-> 0, raised |-> FALSE, path |-> "short"]
       ELSE IF ~has_offer_indicators(page.text)
       THEN [offers |-> <<>>, calls |-> 0, raised |-> FALSE, path |-> "precheck"]
       ELSE IF backend.fails \/ \E n \in 1..Len(parsed) : attach_raises(parsed[n])
       THEN [offers |-> <<>>, calls |-> 1, raised |-> FALSE, path |-> "llm_error"]
       ELSE [offers |-> [n \in 1..Len(parsed) |->
                            attach_image(parsed[n], extract_vehicle_images(page))],
             calls |-> 1, raised |-> FALSE, path |-> "llm"]

\* extract_offers with a failing backend call left uncaught
extract_offers_backend_raises(page, dealer_slug, backend) ==
    LET can_css == \/ dealer_slug # "" /\ has_css_extractor(dealer_slug)
                   \/ detect_platform(page) # NoPlatform
        css == IF can_css THEN extract_with_css(dealer_slug, page) ELSE <<>>
        parsed == parse_json_response(backend.reply)
        attached == [i \in 1..Len(parsed) |->
                        attach_image(parsed[i], extract_vehicle_images(page))]
    IN IF Len(css) > 0
       THEN [offers |-> css, calls |-> 0, raised |-> FALSE, path |-> "css"]
       ELSE IF page.soup_raises
       THEN [offers |-> <<>>, calls |-> 0, raised |-> TRUE, path |-> "raise"]
       ELSE IF Len(page.text) < MIN_TEXT_CHARS
       THEN [offers |-> <<>>, calls |-> 0, raised |-> FALSE, path |-> "short"]
       ELSE IF ~has_offer_indicators(page.text)
       THEN [offers |-> <<>>, calls |-> 0, raised |-> FALSE, path |-> "precheck"]
       ELSE IF backend.fails
       THEN [offers |-> <<>>, calls |-> 1, raised |-> TRUE, path |-> "raise"]
       ELSE IF \E i \in 1..Len(parsed) : attach_raises(parsed[i])
       THEN [offers |-> <<>>, calls |-> 1, raised |-> FALSE, path |-> "llm_error"]
       ELSE [offers |-> attached, calls |-> 1, raised |-> FALSE, path |-> "llm"]

extract_offers(page, dealer_slug, backend) ==
    LET can_css == \/ dealer_slug # "" /\ has_css_extractor(dealer_slug)
                   \/ detect_platform(page) # NoPlatform
        css == IF can_css THEN extract_with_css(dealer_slug, page) ELSE <<>>
        parsed == parse_json_response(backend.reply)
        attached == [i \in 1..Len(parsed) |->
                        attach_image(parsed[i], extract_vehicle_images(page))]
    IN IF Len(css) > 0
       THEN [offers |-> css, calls |-> 0, raised |-> FALSE, path |-> "css"]
       ELSE IF page.soup_raises
       THEN [offers |-> <<>>, calls |-> 0, raised |-> TRUE, path |-> "raise"]
       ELSE IF Len(page.text) < MIN_TEXT_CHARS
       THEN [offers |-> <<>>, calls |-> 0, raised |-> FALSE, path |-> "short"]
       ELSE IF ~has_offer_indicators(page.text)
       THEN [offers |-> <<>>, calls |-> 0, raised |-> FALSE, path |-> "precheck"]
       ELSE IF backend.fails
       THEN [offers |-> <<>>, calls |-> 1, raised |-> FALSE, path |-> "llm_error"]
       ELSE IF \E i \in 1..Len(parsed) : attach_raises(parsed[i])
       THEN [offers |-> <<>>, calls |-> 1, raised |-> FALSE, path |-> "llm_error"]
       ELSE [offers |-> attached, calls |-> 1, raised |-> FALSE, path |-> "llm"]

\* ------------------------------------------------------------------------
\* scraper/fetcher.py
\* ------------------------------------------------------------------------
NoPage == [none |-> TRUE]

\* fetch_page(url) with use_playwright_first = True.  pw and rq are what
\* fetch_with_playwright and fetch_with_requests do for this url: a page, or
\* NoPage (failure or fewer than 1000 bytes, both return None); rq_raises is
\* an exception that fetch_with_requests does not catch.
\* Result: html, raised, and the strategies tried in order.
\* fetch_page taking its requests-first branch
fetch_page_requests_first(pw, rq, rq_raises) ==
    IF rq_raises
    THEN [html |-> NoPage, raised |-> TRUE, tried |-> <<"requests">>]
    ELSE IF rq # NoPage
    THEN [html |-> rq, raised |-> FALSE, tried |-> <<"requests">>]
    ELSE [html |-> pw, raised |-> FALSE, tried |-> <<"requests", "playwright">>]

fetch_page(pw, rq, rq_raises) ==
    IF pw # NoPage
    THEN [html |-> pw, raised |-> FALSE, tried |-> <<"playwright">>]
    ELSE IF rq_raises
    THEN [html |-> NoPage, raised |-> TRUE, tried |-> <<"playwright", "requests">>]
    ELSE [html |-> rq, raised |-> FALSE, tried |-> <<"playwright", "requests">>]

\* ------------------------------------------------------------------------
\* scraper/saver.py
\* ------------------------------------------------------------------------
\* "Decimal(str(offer_data[k])) if offer_data.get(k) else None"
decimal_or_none(offer_data, k) ==
    LET x == Get(offer_data, k) IN IF Truthy(x) THEN x ELSE Null

\* the Offer row save_offers builds for one cleaned offer
offer_row(dealer_id, offer_data, source_url) ==
    LET anchor == Get(offer_data, "source_anchor")
        offer_source_url == IF Truthy(anchor)
                            THEN source_url \o "#" \o anchor.v
                            ELSE source_url
    IN [dealer_id |-> dealer_id,
        year |-> offer_data["year"],
        make |-> GetD(offer_data, "make", Str("Toyota")),
        model |-> offer_data["model"],
        trim |-> Get(offer_data, "trim"),
        offer_type |-> GetD(offer_data, "offer_type", Str("lease")),
        monthly_payment |-> decimal_or_none(offer_data, "monthly_payment"),
        down_payment |-> decimal_or_none(offer_data, "down_payment"),
        term_months |-> Get(offer_data, "term_months"),
        annual_mileage |-> Get(offer_data, "annual_mileage"),
        apr |-> decimal_or_none(offer_data, "apr"),
        msrp |-> decimal_or_none(offer_data, "msrp"),
        selling_price |-> decimal_or_none(offer_data, "selling_price"),
        disclaimer |-> Get(offer_data, "disclaimer"),
        source_url |-> offer_source_url,
        image_url |-> Get(offer_data, "image_url"),
        confidence_score |-> GetD(offer_data, "confidence", Num(80)),
        extraction_method |-> GetD(offer_data, "extraction_method", Str("llm_html")),
        raw_extracted_data |-> offer_data,
        active |-> TRUE,
        verified_by_human |-> FALSE]

\* deactivate_dealer_offers with the dealer condition left out of the UPDATE
deactivate_all_offers(table, dealer_id) ==
    [k \in 1..Len(table) |->
        IF table[k].active THEN [table[k] EXCEPT !.active = FALSE] ELSE table[k]]

\* the UPDATE of deactivate_dealer_offers applied to the offers table
deactivate_dealer_offers(table, dealer_id) ==
    [k \in 1..Len(table) |->
        IF table[k].dealer_id = dealer_id /\ table[k].active
        THEN [table[k] EXCEPT !.active = FALSE]
        ELSE table[k]]

\* the rows save_offers inserts, in the order of the list
inserted_rows(dealer_id, offers, source_url) ==
    [k \in 1..Len(offers) |-> offer_row(dealer_id, offers[k], source_url)]

\* the offers table after a committed save_offers; the dealer id is the
\* dealer's unique slug
save_offers(table, dealer_info, offers, source_url) ==
    deactivate_dealer_offers(table, dealer_info.slug)
        \o inserted_rows(dealer_info.slug, offers, source_url)

\* ------------------------------------------------------------------------
\* The environment: dealers, pages and backend behaviours
\* ------------------------------------------------------------------------
DEALERS == <<
    [name |-> "Longo Toyota", slug |-> "longo-toyota", make |-> "Toyota",
     specials_url |-> "https://www.longotoyota.com/new-toyota-specials-los-angeles.html"],
    [name |-> "Toyota of Downtown LA", slug |-> "toyota-downtown-la", make |-> "Toyota",
     specials_url |-> "https://www.toyotaofdowntownla.com/new-vehicle-specials/"],
    [name |-> "North Hollywood Toyota", slug |-> "north-hollywood-toyota", make |-> "Toyota",
     specials_url |-> "https://www.northhollywoodtoyota.com/new-vehicle-specials/"],
    [name |-> "Culver City Toyota", slug |-> "culver-city-toyota", make |-> "Toyota",
     specials_url |-> "https://www.culvercitytoyota.com/new-vehicles/new-vehicle-specials/"],
    [name |-> "AutoNation Toyota Cerritos", slug |-> "autonation-toyota-cerritos", make |-> "Toyota",
     specials_url |-> "https://www.autonationtoyotacerritos.com/toyota-specials.htm"],
    [name |-> "Airport Marina Honda", slug |-> "airport-marina-honda", make |-> "Honda",
     specials_url |-> "https://www.airportmarinahonda.com/new-vehicle-specials-2/"],
    [name |-> "Galpin Honda", slug |-> "galpin-honda", make |-> "Honda",
     specials_url |-> "https://www.galpinhonda.com/new-specials/"],
    [name |-> "Goudy Honda", slug |-> "goudy-honda", make |-> "Honda",
     specials_url |-> "https://www.goudyhonda.com/new-vehicles/new-vehicle-specials/"],
    [name |-> "Norm Reeves Honda Cerritos", slug |-> "norm-reeves-honda-cerritos", make |-> "Honda",
     specials_url |-> "https://www.normreeveshondacerritos.com/new-vehicles/new-vehicle-specials/"],
    [name |-> "Scott Robinson Honda", slug |-> "scott-robinson-honda", make |-> "Honda",
     specials_url |-> "https://scottrobinsonhonda.com/offers/"],
    [name |-> "Carson Honda", slug |-> "carson-honda", make |-> "Honda",
     specials_url |-> "https://www.carsonhonda.net/promotions/new/index.htm"] >>

\* bounds of the exploration
\* dealers selected by one invocation of main
MaxBatch == 2

\* dealer runs over all invocations of main
MaxRuns == 2

\* save_offers calls, and the calls open at once, in the concurrent-writer
\* specification
MaxSaves == 3

NumWorkers == 2

\* the slugs given on the command line are drawn from these
SlugArgs == {"longo-toyota", "airport-marina-honda", "scott-robinson-honda", "no-such-dealer"}

Platforms == {"octane", "dealeron_gemini", "dealerinspire"}

NoCards == [p \in Platforms |-> <<>>]

BaseCard == [vehicle_ok |-> TRUE, year |-> Num(2026), make |-> Str("Toyota"),
             model |-> Str("RAV4"), trim |-> Str("LE"), lease_word |-> TRUE,
             finance_word |-> FALSE,
             price_el |-> TRUE, price_pct |-> FALSE, price_num |-> Num(299),
             subtext_apr |-> FALSE, offerrate |-> FALSE, text_num |-> Null,
             down |-> Num(3499), term |-> Num(36), mileage |-> Null,
             expiration |-> Null, disclaimer |-> Null, image_url |-> Null,
             id |-> Str("offer-12117"), raises |-> FALSE]

CardLease == BaseCard

CardSameKey == [BaseCard EXCEPT !.trim = Str("XLE"), !.id = Str("offer-12118")]

CardNoYear == [BaseCard EXCEPT !.year = Null, !.model = Str("Camry"), !.trim = Null,
                               !.term = Null, !.id = Null, !.price_num = Num(329)]

CardFinance == [BaseCard EXCEPT !.model = Str("Corolla"), !.price_pct = TRUE,
                                !.price_num = Num(499), !.id = Str("offer-12200")]

CardUnknown == [BaseCard EXCEPT !.model = Str("Unknown"), !.id = Str("offer-9")]

CardCheap == [BaseCard EXCEPT !.price_num = Num(30)]

CardBroken == [BaseCard EXCEPT !.raises = TRUE]

CardRate == [BaseCard EXCEPT !.make = Str("Honda"), !.model = Str("Civic"),
                             !.trim = Null, !.offerrate = TRUE,
                             !.price_num = Num(259), !.id = Str("offer-29956")]

CardText == [BaseCard EXCEPT !.make = Str("Honda"), !.model = Str("CR-V"),
                             !.price_el = FALSE, !.price_num = Null,
                             !.text_num = Num(189), !.id = Str("offer-29957")]

\* 104 characters of visible text without any offer keyword
Filler == "Welcome to our dealership. Browse the new inventory, schedule service and read about our team and hours."

TextRich == Filler \o " Lease a Civic for $259/mo. $2,999 due at signing."

TextOne == Filler \o " Ask about our lease specials."

TextTwo == Filler \o " Lease or Finance today."

TextShort == "Lease $259/mo. APR 1.9%."

CivicImage == [src |-> "https://cdn.example.com/img/civic-large.jpg", alt |-> "Honda Civic",
               title |-> "", small |-> FALSE]

BasePage == [markers |-> {}, cards |-> NoCards, images |-> <<>>, text |-> TextRich,
             soup_raises |-> FALSE, size |-> 5000]

PageOctane == [BasePage EXCEPT !.markers = {"octane-specials-css"},
                 !.cards = [NoCards EXCEPT !["octane"] = <<CardLease, CardUnknown, CardSameKey, CardNoYear>>]]

PageOctaneFinance == [BasePage EXCEPT !.markers = {"octane-specials-css"},
                 !.cards = [NoCards EXCEPT !["octane"] = <<CardFinance>>]]

PageOctaneRejected == [BasePage EXCEPT !.markers = {"octane-specials-css"},
                 !.cards = [NoCards EXCEPT !["octane"] = <<CardCheap>>]]

PageOctaneNothing == [BasePage EXCEPT !.markers = {"octane-specials-css"},
                 !.cards = [NoCards EXCEPT !["octane"] = <<CardBroken>>]]

PageInspire == [BasePage EXCEPT !.markers = {"special-offer", "offerrate"},
                 !.cards = [NoCards EXCEPT !["dealerinspire"] = <<CardRate, CardText>>],
                 !.images = <<CivicImage>>]

PageUnknownRich == [BasePage EXCEPT !.images = <<CivicImage>>]

PageUnknownOne == [BasePage EXCEPT !.text = TextOne]

PageUnknownTwo == [BasePage EXCEPT !.text = TextTwo]

PageUnknownShort == [BasePage EXCEPT !.text = TextShort]

PageBadMarkup == [BasePage EXCEPT !.soup_raises = TRUE]

Pages == {PageOctane, PageOctaneFinance, PageOctaneRejected, PageOctaneNothing,
          PageInspire, PageUnknownRich, PageUnknownOne, PageUnknownTwo,
          PageUnknownShort, PageBadMarkup}

\* objects of a backend reply: the keys of the prompt's structure
LlmCivic == [year |-> Num(2026), make |-> Str("Honda"), model |-> Str("civic"),
             trim |-> Str("Sport"), offer_type |-> Str("lease"),
             monthly_payment |-> Num(259), down_payment |-> Num(2999),
             term_months |-> Num(35), annual_mileage |-> Num(10000), apr |-> Null,
             msrp |-> Null, selling_price |-> Null, offer_end_date |-> Null,
             disclaimer |-> Null, confidence |-> Num(90)]

LlmOld == [LlmCivic EXCEPT !.year = Num(2020), !.model = Str("Accord")]

LlmNullModel == [LlmCivic EXCEPT !.model = Null]

LlmBadMake == [LlmCivic EXCEPT !.make = Num(1), !.model = Str("Pilot")]

Reply(fence, shape, items) == [fence |-> fence, shape |-> shape, items |-> items]

Backends == {[fails |-> TRUE, reply |-> Reply("none", "list", <<>>)],
             [fails |-> FALSE, reply |-> Reply("none", "list", <<LlmCivic, LlmOld>>)],
             [fails |-> FALSE, reply |-> Reply("json", "offers_obj", <<LlmOld>>)],
             [fails |-> FALSE, reply |-> Reply("plain", "list", <<LlmCivic>>)],
             [fails |-> FALSE, reply |-> Reply("none", "list", <<LlmNullModel, LlmCivic>>)],
             [fails |-> FALSE, reply |-> Reply("none", "list", <<LlmCivic, LlmBadMake>>)],
             [fails |-> FALSE, reply |-> Reply("none", "list", <<LlmCivic, LlmCivic>>)],
             [fails |-> FALSE, reply |-> Reply("none", "invalid", <<>>)]}

\* the dealers the command line can select
ArgDealers == SelectSeq(DEALERS, LAMBDA d : d.slug \in SlugArgs)

\* extract_with_css tabulated over the environment (evaluated once)
CssTable ==
    Tabulate([p \in Pages |->
        Tabulate([k \in 1..Len(ArgDealers) |->
            extract_with_css(ArgDealers[k].slug, p)])])

\* extract_offers tabulated over the environment (evaluated once)
ExtractTable ==
    Tabulate([p \in Pages |->
        Tabulate([k \in 1..Len(ArgDealers) |->
            Tabulate([b \in Backends |-> extract_offers(p, ArgDealers[k].slug, b)])])])

\* the candidate lists extract_offers can return
RawLists == {ExtractTable[p][k][b].offers :
                p \in Pages, k \in 1..Len(ArgDealers), b \in Backends}

\* ------------------------------------------------------------------------
\* scraper/main.py: the batch driver
\* ------------------------------------------------------------------------
VARIABLES
    db,                 \* table offers: the rows in insertion order
    dealers_tbl,        \* table dealers: the slugs that have a row
    runs,               \* dealer runs started so far
    dealers_to_scrape,  \* the dealers selected for the current batch
    pos,                \* position of the current dealer in dealers_to_scrape
    pc,                 \* where the batch stands
    html,               \* the page of the current dealer run
    raw_offers,         \* extract_offers' result in the current dealer run
    valid_offers,       \* the validated, cleaned offers of the current run
    result,             \* the result dict of the current dealer run
    results,            \* the results list of main
    llm_calls,          \* backend calls made by the current run's extract_offers
    extract_path,       \* the return statement extract_offers took
    raised_at,          \* the step of the current run that raised, or "none"
    handed,             \* the list the current run passed to save_offers
    pre_db,             \* the offers table when the current run began
    sess,               \* the storage session of each concurrent save_offers caller
    saves,              \* save_offers calls started by the concurrent callers
    call                \* the last direct call of a function: name, arguments, result

vars == <<db, dealers_tbl, runs, dealers_to_scrape, pos, pc, html, raw_offers,
          valid_offers, result, results, llm_calls, extract_path, raised_at,
          handed, pre_db, sess, saves, call>>

NotHanded == <<[none |-> TRUE]>>

NoResult == [name |-> "", status |-> "failed", fetched |-> 0, extracted |-> 0,
             valid |-> 0, saved |-> 0, error |-> Null]

\* the result dict scrape_dealer starts from
new_result(d) == [NoResult EXCEPT !.name = d.name]

\* "if not html": the error is set and the status stays 'failed'
fetch_failed(res) == [res EXCEPT !.error = Str("Failed to fetch page")]

\* "if not raw_offers": fetched but nothing extracted
no_offers(res) ==
    [res EXCEPT !.extracted = 0, !.error = Str("No offers extracted"),
                !.status = "success"]

\* the no-valid-offers return with the status left at 'failed'
no_valid_failed(res) ==
    [res EXCEPT !.valid = 0, !.error = Str("No valid offers after validation")]

\* "if not valid_offers": every candidate was rejected
no_valid(res) ==
    [res EXCEPT !.valid = 0, !.error = Str("No valid offers after validation"),
                !.status = "success"]

\* after save_offers returned its stats
saved_result(res, inserted) == [res EXCEPT !.saved = inserted, !.status = "success"]

\* "except Exception as e": result["error"] = str(e)
on_exception(res) == [res EXCEPT !.error = Str("exception")]

\* no function has been called directly
NoCall == [op |-> "none"]

\* a caller of save_offers with no session open
Closed == [stage |-> "closed"]

Workers == 1..NumWorkers

dealer == dealers_to_scrape[pos]

\* the validate-and-clean loop of scrape_dealer: does it raise
validate_loop_raises(offers) ==
    \E k \in 1..Len(offers) :
        \/ validate_raises(offers[k])
        \/ validate_offer(offers[k]) /\ clean_raises(offers[k])

RECURSIVE validate_loop(_)
\* the validate-and-clean loop of scrape_dealer: the list valid_offers
validate_loop(offers) ==
    IF Len(offers) = 0 THEN <<>>
    ELSE (IF validate_offer(Head(offers)) THEN <<clean_offer(Head(offers))>> ELSE <<>>)
         \o validate_loop(Tail(offers))

\* the loop tabulated over the lists extraction can return (evaluated once)
ValidateTable ==
    Tabulate([r \in RawLists |->
        IF validate_loop_raises(r)
        THEN [raises |-> TRUE, valid |-> <<>>]
        ELSE [raises |-> FALSE, valid |-> validate_loop(r)]])

Init ==
    /\ db = <<>>
    /\ dealers_tbl = {}
    /\ runs = 0
    /\ dealers_to_scrape = <<>>
    /\ pos = 0
    /\ pc = "idle"
    /\ html = NoPage
    /\ raw_offers = <<>>
    /\ valid_offers = <<>>
    /\ result = NoResult
    /\ results = <<>>
    /\ llm_calls = 0
    /\ extract_path = "none"
    /\ raised_at = "none"
    /\ handed = NotHanded
    /\ pre_db = <<>>
    /\ sess = [w \in Workers |-> Closed]
    /\ saves = 0
    /\ call = NoCall

\* the per-run variables as scrape_dealer finds them on entry
BeginRun(d) ==
    /\ html' = NoPage
    /\ raw_offers' = <<>>
    /\ valid_offers' = <<>>
    /\ result' = new_result(d)
    /\ llm_calls' = 0
    /\ extract_path' = "none"
    /\ raised_at' = "none"
    /\ handed' = NotHanded
    /\ pre_db' = db

\* main(dealer_slugs): select the dealers and enter the loop
StartBatch ==
    /\ pc = "idle"
    /\ \E dealer_slugs \in SUBSET SlugArgs :
        /\ dealer_slugs # {}
        /\ Cardinality(dealer_slugs) <= MaxBatch
        /\ LET selected == SelectSeq(DEALERS, LAMBDA d : d.slug \in dealer_slugs)
           IN /\ runs + Len(selected) <= MaxRuns
              /\ runs' = runs + Len(selected)
              /\ results' = <<>>
              /\ IF Len(selected) = 0
                 THEN /\ pc' = "idle"
                      /\ pos' = 0
                      /\ dealers_to_scrape' = <<>>
                      /\ UNCHANGED <<html, raw_offers, valid_offers, result, llm_calls,
                                     extract_path, raised_at, handed, pre_db>>
                 ELSE /\ pc' = "fetch"
                      /\ pos' = 1
                      /\ dealers_to_scrape' = selected
                      /\ BeginRun(selected[1])
    /\ UNCHANGED <<db, dealers_tbl, sess, saves, call>>

\* scrape_dealer step 1: fetch_page
Fetch ==
    /\ pc = "fetch"
    /\ \E pw \in Pages \cup {NoPage}, rq \in Pages \cup {NoPage}, rq_raises \in BOOLEAN :
        LET f == fetch_page(pw, rq, rq_raises)
        IN IF f.raised
           THEN /\ raised_at' = "fetch"
                /\ result' = on_exception(result)
                /\ pc' = "returned"
                /\ UNCHANGED html
           ELSE IF f.html = NoPage
           THEN /\ result' = fetch_failed(result)
                /\ pc' = "returned"
                /\ UNCHANGED <<html, raised_at>>
           ELSE /\ html' = f.html
                /\ result' = [result EXCEPT !.fetched = f.html.size]
                /\ pc' = "extract"
                /\ UNCHANGED raised_at
    /\ UNCHANGED <<db, dealers_tbl, runs, dealers_to_scrape, pos, raw_offers,
                   valid_offers, results, llm_calls, extract_path, handed, pre_db, sess, saves, call>>

\* scrape_dealer step 2: extract_offers
Extract ==
    /\ pc = "extract"
    /\ \E backend \in Backends :
        LET k == CHOOSE n \in 1..Len(ArgDealers) : ArgDealers[n].slug = dealer.slug
            r == ExtractTable[html][k][backend]
        IN /\ llm_calls' = r.calls
           /\ extract_path' = r.path
           /\ IF r.raised
              THEN /\ raised_at' = "extract"
                   /\ result' = on_exception(result)
                   /\ pc' = "returned"
                   /\ UNCHANGED raw_offers
              ELSE /\ raw_offers' = r.offers
                   /\ UNCHANGED raised_at
                   /\ IF Len(r.offers) = 0
                      THEN /\ result' = no_offers(result)
                           /\ pc' = "returned"
                      ELSE /\ result' = [result EXCEPT !.extracted = Len(r.offers)]
                           /\ pc' = "validate"
    /\ UNCHANGED <<db, dealers_tbl, runs, dealers_to_scrape, pos, html,
                   valid_offers, results, handed, pre_db, sess, saves, call>>

\* scrape_dealer step 3: validate and clean
Validate ==
    /\ pc = "validate"
    /\ IF ValidateTable[raw_offers].raises
       THEN /\ raised_at' = "validate"
            /\ result' = on_exception(result)
            /\ pc' = "returned"
            /\ UNCHANGED valid_offers
       ELSE LET valid == ValidateTable[raw_offers].valid
            IN /\ valid_offers' = valid
               /\ UNCHANGED raised_at
               /\ IF Len(valid) = 0
                  THEN /\ result' = no_valid(result)
                       /\ pc' = "returned"
                  ELSE /\ result' = [result EXCEPT !.valid = Len(valid)]
                       /\ pc' = "save"
    /\ UNCHANGED <<db, dealers_tbl, runs, dealers_to_scrape, pos, html, raw_offers,
                   results, llm_calls, extract_path, handed, pre_db, sess, saves, call>>

\* scrape_dealer step 4: save_offers; db_fails is a storage error (connect,
\* flush or commit), which leaves the tables as they were
Save ==
    /\ pc = "save"
    /\ handed' = valid_offers
    /\ \E db_fails \in BOOLEAN :
        IF db_fails
        THEN /\ raised_at' = "save"
             /\ result' = on_exception(result)
             /\ UNCHANGED <<db, dealers_tbl>>
        ELSE /\ db' = save_offers(db, dealer, valid_offers, dealer.specials_url)
             /\ dealers_tbl' = dealers_tbl \cup {dealer.slug}
             /\ result' = saved_result(result, Len(valid_offers))
             /\ UNCHANGED raised_at
    /\ pc' = "returned"
    /\ UNCHANGED <<runs, dealers_to_scrape, pos, html, raw_offers, valid_offers,
                   results, llm_calls, extract_path, pre_db, sess, saves, call>>

\* the per-run variables once scrape_dealer has returned and its result is
\* in the list
EndRun ==
    /\ html' = NoPage
    /\ raw_offers' = <<>>
    /\ valid_offers' = <<>>
    /\ result' = NoResult
    /\ llm_calls' = 0
    /\ extract_path' = "none"
    /\ raised_at' = "none"
    /\ handed' = NotHanded
    /\ pre_db' = <<>>

\* main with the loop left at the first dealer run that raised
AdvanceAbort ==
    /\ pc = "returned"
    /\ results' = Append(results, result)
    /\ IF pos < Len(dealers_to_scrape) /\ raised_at = "none"
       THEN /\ pos' = pos + 1
            /\ pc' = "fetch"
            /\ BeginRun(dealers_to_scrape[pos + 1])
       ELSE /\ pc' = "summary"
            /\ pos' = pos
            /\ EndRun
    /\ UNCHANGED <<db, dealers_tbl, runs, dealers_to_scrape, sess, saves, call>>

\* main: results.append(result), then the next dealer or the summary
Advance ==
    /\ pc = "returned"
    /\ results' = Append(results, result)
    /\ IF pos < Len(dealers_to_scrape)
       THEN /\ pos' = pos + 1
            /\ pc' = "fetch"
            /\ BeginRun(dealers_to_scrape[pos + 1])
       ELSE /\ pc' = "summary"
            /\ pos' = pos
            /\ EndRun
    /\ UNCHANGED <<db, dealers_tbl, runs, dealers_to_scrape, sess, saves, call>>

\* main: print the summary and return
Summary ==
    /\ pc = "summary"
    /\ pc' = "idle"
    /\ pos' = 0
    /\ results' = <<>>
    /\ dealers_to_scrape' = <<>>
    /\ UNCHANGED <<db, dealers_tbl, runs, html, raw_offers, valid_offers, result,
                   llm_calls, extract_path, raised_at, handed, pre_db, sess, saves, call>>

Next == StartBatch \/ Fetch \/ Extract \/ Validate \/ Save \/ Advance \/ Summary

Spec == Init /\ [][Next]_vars

\* ------------------------------------------------------------------------
\* scraper/saver.py: save_offers called by concurrent writers, each in its
\* own session (one transaction, applied to the tables at commit)
\* ------------------------------------------------------------------------
\* cleaned lists scrape_dealer passes to save_offers: those of the runs that
\* extracted structurally
SaveLists ==
    {ValidateTable[CssTable[p][k]].valid :
        p \in {q \in Pages : detect_platform(q) # NoPlatform},
        k \in 1..Len(ArgDealers)} \ {<<>>}

\* the dealers that have a session open
Busy == {sess[w].dealer_info.slug : w \in {v \in Workers : sess[v].stage # "closed"}}

\* save_offers entered: "with SessionLocal() as session"
OpenSession(w) ==
    /\ sess[w].stage = "closed"
    /\ saves < MaxSaves
    /\ \E k \in 1..Len(ArgDealers), offers \in SaveLists :
        /\ ArgDealers[k].slug \notin Busy
        /\ sess' = [sess EXCEPT ![w] = [stage |-> "open",
                                        dealer_info |-> ArgDealers[k],
                                        offers |-> offers,
                                        created |-> FALSE,
                                        deactivated |-> {},
                                        pending |-> <<>>]]
    /\ saves' = saves + 1
    /\ UNCHANGED <<db, dealers_tbl, runs, dealers_to_scrape, pos, pc, html,
                   raw_offers, valid_offers, result, results, llm_calls,
                   extract_path, raised_at, handed, pre_db, call>>

\* get_or_create_dealer: the row is found, or added and flushed
GetOrCreateDealer(w) ==
    /\ sess[w].stage = "open"
    /\ sess' = [sess EXCEPT ![w].stage = "dealer",
                            ![w].created = sess[w].dealer_info.slug \notin dealers_tbl]
    /\ UNCHANGED <<db, dealers_tbl, runs, dealers_to_scrape, pos, pc, html,
                   raw_offers, valid_offers, result, results, llm_calls,
                   extract_path, raised_at, handed, pre_db, saves, call>>

\* deactivate_dealer_offers: the UPDATE runs inside the transaction on the
\* committed rows
Deactivate(w) ==
    /\ sess[w].stage = "dealer"
    /\ LET updated == deactivate_dealer_offers(db, sess[w].dealer_info.slug)
       IN sess' = [sess EXCEPT ![w].stage = "deactivated",
                               ![w].deactivated =
                                   {k \in 1..Len(db) : updated[k] # db[k]}]
    /\ UNCHANGED <<db, dealers_tbl, runs, dealers_to_scrape, pos, pc, html,
                   raw_offers, valid_offers, result, results, llm_calls,
                   extract_path, raised_at, handed, pre_db, saves, call>>

\* the loop of session.add(offer)
AddOffers(w) ==
    /\ sess[w].stage = "deactivated"
    /\ sess' = [sess EXCEPT ![w].stage = "added",
                            ![w].pending =
                                inserted_rows(sess[w].dealer_info.slug, sess[w].offers,
                                              sess[w].dealer_info.specials_url)]
    /\ UNCHANGED <<db, dealers_tbl, runs, dealers_to_scrape, pos, pc, html,
                   raw_offers, valid_offers, result, results, llm_calls,
                   extract_path, raised_at, handed, pre_db, saves, call>>

\* session.commit(): the transaction's changes reach the tables
Commit(w) ==
    /\ sess[w].stage = "added"
    /\ db' = [k \in 1..Len(db) |->
                 IF k \in sess[w].deactivated
                 THEN [db[k] EXCEPT !.active = FALSE]
                 ELSE db[k]] \o sess[w].pending
    /\ dealers_tbl' = dealers_tbl \cup {sess[w].dealer_info.slug}
    /\ sess' = [sess EXCEPT ![w] = Closed]
    /\ UNCHANGED <<runs, dealers_to_scrape, pos, pc, html, raw_offers,
                   valid_offers, result, results, llm_calls, extract_path,
                   raised_at, handed, pre_db, saves, call>>

\* a statement or the commit raises: the session closes without a commit
Rollback(w) ==
    /\ sess[w].stage # "closed"
    /\ sess' = [sess EXCEPT ![w] = Closed]
    /\ UNCHANGED <<db, dealers_tbl, runs, dealers_to_scrape, pos, pc, html,
                   raw_offers, valid_offers, result, results, llm_calls,
                   extract_path, raised_at, handed, pre_db, saves, call>>

NextSave ==
    \E w \in Workers :
        \/ OpenSession(w)
        \/ GetOrCreateDealer(w)
        \/ Deactivate(w)
        \/ AddOffers(w)
        \/ Commit(w)
        \/ Rollback(w)

SpecSave == Init /\ [][NextSave]_vars

\* ------------------------------------------------------------------------
\* Direct calls of the pure functions, on arguments drawn from finite sets;
\* a behaviour makes one call
\* ------------------------------------------------------------------------
\* a candidate as a platform extractor builds it
Cand(year, model, trim, offer_type, monthly) ==
    make_offer_dict(Num(year), Str("Toyota"), Str(model), Str(trim), Str(offer_type), monthly, Num(2999), Num(36), Null, Null, Null, Null, Null, Num(85), Null)

\* longest list handed to dedupe_offers
MaxDedupe == 3

DedupeCands == {Cand(2026, "Corolla", "LE", "lease", Num(299)),
                Cand(2026, "Corolla", "SE", "lease", Num(299)),
                Cand(2026, "Corolla", "LE", "finance", Num(299)),
                Cand(2026, "Corolla", "LE", "lease", Num(319)),
                Cand(2025, "Camry", "LE", "lease", Num(299)),
                Cand(2026, "Corolla", "LE", "finance", Null)}

DedupeInputs == UNION {[1..n -> DedupeCands] : n \in 0..MaxDedupe}

\* dedupe_offers(offers)
CallDedupe ==
    /\ call = NoCall
    /\ \E offers \in DedupeInputs :
        call' = [op |-> "dedupe_offers", arg |-> offers, out |-> dedupe_offers(offers)]
    /\ UNCHANGED <<db, dealers_tbl, runs, dealers_to_scrape, pos, pc, html,
                   raw_offers, valid_offers, result, results, llm_calls,
                   extract_path, raised_at, handed, pre_db, sess, saves>>

\* a candidate as the backend returns it, valid in every field
BaseOffer == [year |-> Num(CURRENT_YEAR), make |-> Str("Honda"), model |-> Str("Civic"),
              trim |-> Str("Sport"), offer_type |-> Str("lease"),
              monthly_payment |-> Num(259), down_payment |-> Num(2999),
              term_months |-> Num(36), annual_mileage |-> Num(10000), apr |-> Null,
              msrp |-> Null, selling_price |-> Null, offer_end_date |-> Null,
              disclaimer |-> Null, confidence |-> Num(90)]

\* BaseOffer without its confidence key
NoConfidence == [k \in DOMAIN BaseOffer \ {"confidence"} |-> BaseOffer[k]]

\* largest term_months tried; the terms run from -1
MaxTerm == 80

\* years tried on either side of CURRENT_YEAR
YearSpan == 3

\* candidates that differ from BaseOffer in the term only
TermOffers == {[BaseOffer EXCEPT !.term_months = Num(t)] : t \in (0 - 1)..MaxTerm}

\* model strings: the vocabulary as written, lowered, and other spellings
ModelInputs ==
    {ALL_MODELS[k] : k \in 1..Len(ALL_MODELS)}
    \cup {ALL_MODELS_lower[k] : k \in 1..Len(ALL_MODELS)}
    \cup {"cross", "Hatchback", "hybrid", "rav 4", "CRV", "Model3", "F-150",
          " civic ", "Corolla Cross Hybrid", "CIVIC"}

\* candidates that differ from BaseOffer in the model only
ModelOffers == {[BaseOffer EXCEPT !.model = Str(m)] : m \in ModelInputs}

\* candidates over the boundary values of every validated field
GridOffers ==
    {[b EXCEPT !.model = model, !.year = year, !.monthly_payment = monthly,
               !.down_payment = down, !.term_months = term, !.offer_type = offer_type] :
        b \in {BaseOffer, NoConfidence,
               [BaseOffer EXCEPT !.confidence = Num(49)],
               [BaseOffer EXCEPT !.confidence = Num(50)]},
        model \in {Str("Civic"), Str("F-150"), Null},
        year \in {Num(y) : y \in {CURRENT_YEAR - 2, CURRENT_YEAR - 1, CURRENT_YEAR, CURRENT_YEAR + 1,
                                 CURRENT_YEAR + 2}} \cup {Null},
        monthly \in {Null, Num(49), Num(50), Num(2000), Num(2001)},
        down \in {Null, Num(0 - 1), Num(0), Num(20000), Num(20001)},
        term \in {Null, Num(20), Num(21), Num(45), Num(52)},
        offer_type \in {Str("lease"), Str("finance"), Str("purchase")}}

YearOffers ==
    {[BaseOffer EXCEPT !.year = Num(y)] :
        y \in (CURRENT_YEAR - YearSpan)..(CURRENT_YEAR + YearSpan)}

OfferInputs == TermOffers \cup ModelOffers \cup GridOffers \cup YearOffers

\* validate_offer(offer)
CallValidate ==
    /\ call = NoCall
    /\ \E offer \in OfferInputs :
        /\ ~validate_raises(offer)
        /\ call' = [op |-> "validate_offer", arg |-> offer,
                    out |-> [is_valid |-> validate_offer(offer),
                             errors |-> validate_errors(offer)]]
    /\ UNCHANGED <<db, dealers_tbl, runs, dealers_to_scrape, pos, pc, html,
                   raw_offers, valid_offers, result, results, llm_calls,
                   extract_path, raised_at, handed, pre_db, sess, saves>>

\* clean_offer(offer)
CallClean ==
    /\ call = NoCall
    /\ \E offer \in OfferInputs :
        /\ ~clean_raises(offer)
        /\ call' = [op |-> "clean_offer", arg |-> offer, out |-> clean_offer(offer)]
    /\ UNCHANGED <<db, dealers_tbl, runs, dealers_to_scrape, pos, pc, html,
                   raw_offers, valid_offers, result, results, llm_calls,
                   extract_path, raised_at, handed, pre_db, sess, saves>>

\* normalize_model_name(model)
CallNormalize ==
    /\ call = NoCall
    /\ \E model \in ModelInputs :
        call' = [op |-> "normalize_model_name", arg |-> model,
                 out |-> normalize_model_name(Str(model))]
    /\ UNCHANGED <<db, dealers_tbl, runs, dealers_to_scrape, pos, pc, html,
                   raw_offers, valid_offers, result, results, llm_calls,
                   extract_path, raised_at, handed, pre_db, sess, saves>>

\* the marker sets a page can show: none, one platform's, or two platforms'
MarkerSets == {{}, {"octane-specials-css"},
               {"vehicle-specials-banner", "vehicle-specials-vehiclename"},
               {"vehicle-specials-banner"},
               {"special-offer", "offerrate"},
               {"octane-specials-css", "special-offer", "offer-content"}}

\* pages for extract_with_css: every marker set, with or without containers
\* for each platform's selectors
CssPages ==
    {[BasePage EXCEPT !.markers = markers, !.soup_raises = bad,
                      !.cards = [octane |-> oct, dealeron_gemini |-> don,
                                 dealerinspire |-> din]] :
        markers \in MarkerSets, bad \in BOOLEAN,
        oct \in {<<>>, <<CardLease>>}, don \in {<<>>, <<CardNoYear>>},
        din \in {<<>>, <<CardRate>>}}

\* dealer_slug arguments: the configured dealers, an unknown slug, no slug
CssSlugs == {DEALERS[k].slug : k \in 1..Len(DEALERS)} \cup {"no-such-dealer", ""}

\* extract_with_css(dealer_slug, html)
CallExtractWithCss ==
    /\ call = NoCall
    /\ \E dealer_slug \in CssSlugs, page \in CssPages :
        call' = [op |-> "extract_with_css", arg |-> <<dealer_slug, page>>,
                 out |-> extract_with_css(dealer_slug, page)]
    /\ UNCHANGED <<db, dealers_tbl, runs, dealers_to_scrape, pos, pc, html,
                   raw_offers, valid_offers, result, results, llm_calls,
                   extract_path, raised_at, handed, pre_db, sess, saves>>

\* texts over 100 characters differing in the keywords they hold and in how
\* often each is repeated
KeywordTails == {"", " Lease.", " Lease. Lease. Lease.", " Lease or finance.",
                 " Lease, lease or finance.", " Lease, finance, APR.",
                 " LEASE FINANCE APR", " $259/month lease.", " $2 $2 $2 $2",
                 " Monthly. Monthly. Per month.", " Due at signing: $3,999, 1.9% apr."}

KeywordPages == {[BasePage EXCEPT !.text = Filler \o tail] : tail \in KeywordTails}

\* a candidate object without a "model" key
LlmNoModel == [k \in DOMAIN LlmCivic \ {"model"} |-> LlmCivic[k]]

\* the backends of the batch runs and backends answering with another JSON
\* value, with prose before the fence, or with a fenced list
CallBackends ==
    Backends \cup {[fails |-> FALSE, reply |-> Reply("none", "other_obj", <<>>)],
                   [fails |-> FALSE, reply |-> Reply("none", "list", <<LlmNoModel, LlmCivic>>)],
                   [fails |-> FALSE, reply |-> Reply("prose", "list", <<LlmCivic>>)],
                   [fails |-> FALSE, reply |-> Reply("tight", "list", <<LlmCivic>>)]}

\* extract_offers(html, dealer_name, base_url, dealer_slug, default_make)
CallExtractOffers ==
    /\ call = NoCall
    /\ \E page \in Pages \cup KeywordPages, dealer_slug \in SlugArgs, backend \in CallBackends :
        call' = [op |-> "extract_offers", arg |-> <<page, dealer_slug, backend>>,
                 out |-> extract_offers(page, dealer_slug, backend)]
    /\ UNCHANGED <<db, dealers_tbl, runs, dealers_to_scrape, pos, pc, html,
                   raw_offers, valid_offers, result, results, llm_calls,
                   extract_path, raised_at, handed, pre_db, sess, saves>>

\* replies of every fence and shape, with no, one or two elements
ParseReplies ==
    {Reply(fence, shape, items) :
        fence \in {"none", "json", "plain", "tight", "prose"},
        shape \in {"list", "offers_obj", "other_obj", "invalid"},
        items \in {<<>>, <<LlmCivic>>, <<LlmCivic, LlmOld>>, <<LlmNullModel>>}}

\* parse_json_response(response_text)
CallParse ==
    /\ call = NoCall
    /\ \E reply \in ParseReplies :
        call' = [op |-> "parse_json_response", arg |-> reply,
                 text |-> response_text(reply), out |-> parse_json_response(reply)]
    /\ UNCHANGED <<db, dealers_tbl, runs, dealers_to_scrape, pos, pc, html,
                   raw_offers, valid_offers, result, results, llm_calls,
                   extract_path, raised_at, handed, pre_db, sess, saves>>

\* what one fetch strategy gives for the url: a page, or nothing (a failure
\* or fewer than 1000 bytes)
FetchOutcomes == {NoPage, PageOctane, PageUnknownRich}

\* fetch_page(dealer["specials_url"]) as scrape_dealer calls it
CallFetch ==
    /\ call = NoCall
    /\ \E pw \in FetchOutcomes, rq \in FetchOutcomes, rq_raises \in BOOLEAN :
        call' = [op |-> "fetch_page", arg |-> [pw |-> pw, rq |-> rq, rq_raises |-> rq_raises],
                 out |-> fetch_page(pw, rq, rq_raises)]
    /\ UNCHANGED <<db, dealers_tbl, runs, dealers_to_scrape, pos, pc, html,
                   raw_offers, valid_offers, result, results, llm_calls,
                   extract_path, raised_at, handed, pre_db, sess, saves>>

\* the longest container list given to a platform extractor
MaxCards == 3

\* a card with an .offerrate element holding no dollar amount, and a payment
\* in its description text
CardRateUnread == [CardRate EXCEPT !.price_num = Null, !.text_num = Num(259)]

\* a card from which no payment and no rate can be read
CardNoPrice == [BaseCard EXCEPT !.price_num = Null, !.id = Str("offer-7")]

\* a card priced in dollars whose texts hold neither "lease" nor "finance"
CardPlain == [BaseCard EXCEPT !.model = Str("Tacoma"), !.lease_word = FALSE,
                              !.price_num = Num(389), !.id = Str("offer-12300")]

ExtractorCards == {CardLease, CardSameKey, CardNoYear, CardFinance, CardBroken,
                   CardRate, CardText, CardRateUnread, CardNoPrice, CardPlain}

CardLists == UNION {[1..n -> ExtractorCards] : n \in 0..MaxCards}

\* extract_octane, extract_dealeron_gemini or extract_dealerinspire on a page
\* whose containers for the platform's selector are the given cards
CallExtractor ==
    /\ call = NoCall
    /\ \E platform \in Platforms, cards \in CardLists :
        LET page == [BasePage EXCEPT !.cards = [NoCards EXCEPT ![platform] = cards]]
        IN call' = [op |-> "extractor", arg |-> [platform |-> platform, cards |-> cards],
                    out |-> CASE platform = "octane" -> extract_octane(page)
                              [] platform = "dealeron_gemini" -> extract_dealeron_gemini(page)
                              [] OTHER -> extract_dealerinspire(page)]
    /\ UNCHANGED <<db, dealers_tbl, runs, dealers_to_scrape, pos, pc, html,
                   raw_offers, valid_offers, result, results, llm_calls,
                   extract_path, raised_at, handed, pre_db, sess, saves>>

\* price elements of Octane containers, with the amount or rate they show
\* (in hundredths) and whether it is a percentage
OctanePrices == {[text |-> "$299", written |-> 29900, pct |-> FALSE],
                 [text |-> "$1,299", written |-> 129900, pct |-> FALSE],
                 [text |-> "$0", written |-> 0, pct |-> FALSE],
                 [text |-> "4.99%", written |-> 499, pct |-> TRUE],
                 [text |-> "1.9%", written |-> 190, pct |-> TRUE],
                 [text |-> "2.9% APR", written |-> 290, pct |-> TRUE],
                 [text |-> "0%", written |-> 0, pct |-> TRUE],
                 [text |-> "3%", written |-> 300, pct |-> TRUE]}

OctaneSubtexts == {"", "/month", "APR", "apr for 60 months"}

NoneWritten == 0 - 1

\* the rest of an Octane container's text, with the term and the amount due
\* at signing (in hundredths) it names, NoneWritten when it names none
OctaneDetails ==
    {[text |-> "36 Months. $3,499 due at signing.", term |-> 36, down |-> 349900],
     [text |-> "$2,999 due at signing for 39 months, 10,000 miles per year", term |-> 39, down |-> 299900],
     [text |-> "24 month lease with $0 at signing", term |-> 24, down |-> 0],
     [text |-> "Plus tax, title and license.", term |-> NoneWritten, down |-> NoneWritten],
     [text |-> "48 Months", term |-> 48, down |-> NoneWritten]}

\* the card extract_octane reads from a container with these texts (amounts
\* in hundredths): lines 203-223
octane_container(price_text, subtext, details) ==
    LET container_text == price_text \o subtext \o " " \o details
    IN [BaseCard EXCEPT !.price_pct = Contains(price_text, "%"),
                        !.subtext_apr = Contains(Lower(subtext), "apr"),
                        !.price_num = parse_price(price_text),
                        !.down = down_at_signing(container_text),
                        !.term = parse_term(container_text)]

\* extract_octane on a page with one container of the given texts
CallOctane ==
    /\ call = NoCall
    /\ \E price \in OctanePrices, subtext \in OctaneSubtexts, details \in OctaneDetails :
        LET c == octane_container(price.text, subtext, details.text)
            page == [BasePage EXCEPT !.cards = [NoCards EXCEPT !["octane"] = <<c>>]]
        IN call' = [op |-> "extract_octane",
                    arg |-> [price |-> price, subtext |-> subtext, details |-> details],
                    out |-> extract_octane(page)]
    /\ UNCHANGED <<db, dealers_tbl, runs, dealers_to_scrape, pos, pc, html,
                   raw_offers, valid_offers, result, results, llm_calls,
                   extract_path, raised_at, handed, pre_db, sess, saves>>

\* an <img> naming a model of the image vocabulary in its alt text or in
\* its URL, icon-sized or not
ModelImage(model, place, small) ==
    IF place = "alt"
    THEN [src |-> "https://cdn.example.com/img/12117.jpg", alt |-> "New " \o model,
          title |-> "", small |-> small]
    ELSE [src |-> "https://cdn.example.com/img/" \o model \o ".jpg", alt |-> "",
          title |-> "", small |-> small]

\* extract_vehicle_images on a page with one image naming a model, and
\* extract_offers on that page with the backend returning one candidate of
\* the model
CallImages ==
    /\ call = NoCall
    /\ \E m \in 1..Len(IMAGE_MODELS), place \in {"alt", "src"}, small \in BOOLEAN :
        LET img == ModelImage(IMAGE_MODELS[m], place, small)
            page == [BasePage EXCEPT !.images = <<img>>]
            backend == [fails |-> FALSE,
                        reply |-> Reply("none", "list",
                                        <<[LlmCivic EXCEPT !.model = Str(IMAGE_MODELS[m])]>>)]
        IN call' = [op |-> "extract_vehicle_images",
                    arg |-> [model |-> IMAGE_MODELS[m], img |-> img],
                    out |-> [model_images |-> extract_vehicle_images(page),
                             offers |-> extract_offers(page, "scott-robinson-honda", backend).offers]]
    /\ UNCHANGED <<db, dealers_tbl, runs, dealers_to_scrape, pos, pc, html,
                   raw_offers, valid_offers, result, results, llm_calls,
                   extract_path, raised_at, handed, pre_db, sess, saves>>

\* candidates over the numeric fields, each absent, zero or positive (apr in
\* hundredths)
NumericOffers ==
    {[BaseOffer EXCEPT !.offer_type = offer_type, !.monthly_payment = monthly,
                       !.down_payment = down, !.apr = apr, !.annual_mileage = mileage,
                       !.msrp = msrp, !.selling_price = selling] :
        offer_type \in {Str("lease"), Str("finance")},
        monthly \in {Null, Num(259)},
        down \in {Null, Num(0), Num(2999)},
        apr \in {Null, Num(0), Num(190)},
        mileage \in {Null, Num(0), Num(10000)},
        msrp \in {Null, Num(0), Num(30000)},
        selling \in {Null, Num(0), Num(28000)}}

\* the steps of scrape_dealer on one candidate that passes validate_offer:
\* clean_offer, then the row save_offers builds from the cleaned candidate
CallPersist ==
    /\ call = NoCall
    /\ \E offer \in NumericOffers, k \in 1..Len(ArgDealers) :
        /\ ~validate_raises(offer)
        /\ validate_offer(offer)
        /\ ~clean_raises(offer)
        /\ call' = [op |-> "persist", arg |-> offer,
                    out |-> [cleaned |-> clean_offer(offer),
                             row |-> offer_row(ArgDealers[k].slug, clean_offer(offer),
                                               ArgDealers[k].specials_url)]]
    /\ UNCHANGED <<db, dealers_tbl, runs, dealers_to_scrape, pos, pc, html,
                   raw_offers, valid_offers, result, results, llm_calls,
                   extract_path, raised_at, handed, pre_db, sess, saves>>

NextCalls ==
    \/ CallDedupe
    \/ CallValidate
    \/ CallClean
    \/ CallNormalize
    \/ CallExtractWithCss
    \/ CallExtractOffers
    \/ CallParse
    \/ CallFetch
    \/ CallExtractor
    \/ CallOctane
    \/ CallImages
    \/ CallPersist

SpecCalls == Init /\ [][NextCalls]_vars

\* ------------------------------------------------------------------------
\* Properties
\* ------------------------------------------------------------------------
\* the position of a selectable dealer in ArgDealers
ArgIndex(slug) == CHOOSE n \in 1..Len(ArgDealers) : ArgDealers[n].slug = slug

\* the current dealer run is past its call of extract_offers
Extracted == pc \in {"validate", "save", "returned"} /\ extract_path # "none"

\* the current dealer run has returned, and save_offers committed in it
Persisted == pc = "returned" /\ handed # NotHanded /\ raised_at = "none"

\* the rows the current dealer run inserted
NewRows == SubSeq(db, Len(pre_db) + 1, Len(db))

\* the candidates of the current run that pass validate_offer, in order
Passing == SelectSeq(raw_offers, validate_offer)

\* the rows of one dealer, in table order
RowsOf(table, dealer_id) == SelectSeq(table, LAMBDA row : row.dealer_id = dealer_id)

\* C1: when structural extraction is eligible (dealer override or detected
\* platform) and the platform extractor returns at least one candidate,
\* extract_offers returns exactly that list and makes no backend call.
C1_StructuralResultReturned ==
    Extracted =>
        LET eligible == \/ has_css_extractor(dealer.slug)
                        \/ detect_platform(html) # NoPlatform
            css == CssTable[html][ArgIndex(dealer.slug)]
        IN eligible /\ Len(css) > 0 =>
               /\ extract_path = "css"
               /\ raw_offers = css
               /\ llm_calls = 0

\* C1 witness: a dealer without override on a page whose platform is
\* detected, the extractor's candidates returned
C1_Witness ==
    /\ Extracted
    /\ ~has_css_extractor(dealer.slug)
    /\ detect_platform(html) # NoPlatform
    /\ Len(raw_offers) > 0
    /\ raw_offers = CssTable[html][ArgIndex(dealer.slug)]
    /\ llm_calls = 0

\* C2: a page that matches no platform, for a dealer without override, whose
\* cleaned text holds fewer than 3 offer keywords: extract_offers returns the
\* empty list and the backend is not called.
C2_FewKeywordsSkipBackend ==
    /\ Extracted
    /\ ~has_css_extractor(dealer.slug)
    /\ detect_platform(html) = NoPlatform
    /\ ~html.soup_raises
    /\ keyword_count(html.text) < 3
    => /\ extract_path # "raise"
       /\ raw_offers = <<>>
       /\ llm_calls = 0

\* C2 witness: such a page with two keywords in over 100 characters of text
C2_Witness ==
    /\ Extracted
    /\ ~has_css_extractor(dealer.slug)
    /\ detect_platform(html) = NoPlatform
    /\ Len(html.text) >= 100
    /\ keyword_count(html.text) = 2
    /\ extract_path = "precheck"

\* C3: of the raw candidates of a dealer run, exactly those passing
\* validate_offer are cleaned and handed to save_offers, in their order, and
\* rejected candidates do not make the run end 'failed'.
C3_PassingCandidatesHanded ==
    pc = "returned" /\ Len(raw_offers) > 0 =>
        /\ Len(Passing) > 0 => /\ handed # NotHanded
                               /\ handed = validate_loop(raw_offers)
        /\ Len(Passing) = 0 => /\ handed = NotHanded
                               /\ result.status = "success"

\* C4: a dealer run that raised at any step ends 'failed' with an error
\* reason, the batch goes on, and it yields one result per selected dealer in
\* dealer order.
C4_BatchSurvivesExceptions ==
    /\ pc = "returned" /\ raised_at # "none" =>
           result.status = "failed" /\ result.error # Null
    /\ pc \in {"fetch", "extract", "validate", "save", "returned"} =>
           Len(results) = pos - 1
    /\ pc = "summary" => Len(results) = Len(dealers_to_scrape)
    /\ \A k \in 1..Len(results) : results[k].name = dealers_to_scrape[k].name

\* C4 witness: a batch of two at its summary, the first run raised, the
\* second saved offers
C4_Witness ==
    /\ pc = "summary"
    /\ Len(results) = 2
    /\ results[1].status = "failed"
    /\ results[1].error = Str("exception")
    /\ results[2].status = "success"
    /\ results[2].saved > 0

\* C5: a dealer run ends 'failed' exactly when the fetch failed or an
\* exception was raised; fetched but nothing extracted, or every candidate
\* rejected, ends 'success' with saved = 0.
C5_FailedIffFetchOrException ==
    pc = "returned" =>
        /\ result.status = "failed" <=> (html = NoPage \/ raised_at # "none")
        /\ /\ html # NoPage
           /\ raised_at = "none"
           /\ raw_offers = <<>> \/ valid_offers = <<>>
           => result.status = "success" /\ result.saved = 0

\* C5 witness: candidates were extracted and every one was rejected
C5_Witness ==
    /\ pc = "returned"
    /\ html # NoPage
    /\ raised_at = "none"
    /\ Len(raw_offers) > 0
    /\ valid_offers = <<>>
    /\ result.status = "success"
    /\ result.saved = 0

\* C6: after a dealer run that ends 'success', the dealer's active offers in
\* storage are exactly the run's validated offers, and every offer of the
\* dealer that was active before the run is inactive, also when the run
\* produced no valid offer.
C6_ActiveOffersAreThisRuns ==
    pc = "returned" /\ result.status = "success" =>
        LET active == SelectSeq(RowsOf(db, dealer.slug), LAMBDA row : row.active)
        IN /\ [k \in 1..Len(active) |-> active[k].raw_extracted_data] = valid_offers
           /\ \A k \in 1..Len(pre_db) :
                  pre_db[k].dealer_id = dealer.slug /\ pre_db[k].active => ~db[k].active

\* C7: a save_offers call for a dealer changes offer rows of that dealer
\* only: in every step, the rows of a dealer change only by the commit of a
\* call for that dealer.
C7_OnlyOwnRowsChange ==
    [][\A k \in 1..Len(ArgDealers) :
          LET D == ArgDealers[k].slug
          IN RowsOf(db', D) # RowsOf(db, D) =>
                 \E w \in Workers : /\ sess[w].stage = "added"
                                    /\ sess[w].dealer_info.slug = D
                                    /\ sess'[w] = Closed]_vars

\* C7 witness: a dealer's second call committed (its earlier row inactive, a
\* later row active) with another dealer's row, still active, between them
C7_Witness ==
    \E a, b, c \in 1..Len(db) :
        /\ a < b /\ b < c
        /\ db[a].dealer_id = db[c].dealer_id
        /\ db[b].dealer_id # db[a].dealer_id
        /\ ~db[a].active
        /\ db[b].active
        /\ db[c].active

\* C8: every offer a dealer run persists carries the extraction_method of
\* the path that produced it, 'css' from a platform extractor and 'llm_html'
\* from the backend.
C8_MethodOfPathPersisted ==
    Persisted =>
        \A k \in 1..Len(NewRows) :
            NewRows[k].extraction_method =
                Str(IF extract_path = "css" THEN "css" ELSE "llm_html")

\* C9: a candidate of a platform extractor with a non-empty source_anchor A
\* that passes validation is persisted with source_url = page URL "#" A.
C9_AnchorInSourceUrl ==
    Persisted /\ extract_path = "css" =>
        /\ Len(NewRows) = Len(Passing)
        /\ \A k \in 1..Len(Passing) :
               LET A == Get(Passing[k], "source_anchor")
               IN Truthy(A) =>
                      NewRows[k].source_url = dealer.specials_url \o "#" \o A.v

\* C10: every candidate extract_offers returns on the backend path has
\* extraction_method = 'llm_html'.
C10_BackendCandidatesTagged ==
    Extracted /\ extract_path = "llm" =>
        \A k \in 1..Len(raw_offers) :
            Get(raw_offers[k], "extraction_method") = Str("llm_html")

\* the duplicate identity of a candidate
DupKey(o) == <<Get(o, "year"), Get(o, "model"), Get(o, "monthly_payment")>>

RECURSIVE PickFrom(_, _, _)
\* the elements of a list at the positions in idx, from position k on, in
\* list order
PickFrom(seq, idx, k) ==
    IF k > Len(seq) THEN <<>>
    ELSE (IF k \in idx THEN <<seq[k]>> ELSE <<>>) \o PickFrom(seq, idx, k + 1)

\* C11: on either extraction path, the cleaned list handed to save_offers in
\* one dealer run holds no two candidates with the same (year, normalized
\* model, monthly_payment).
C11_HandedListHasNoDuplicates ==
    handed # NotHanded =>
        \A a, b \in 1..Len(handed) : a # b => DupKey(handed[a]) # DupKey(handed[b])

\* C12: dedupe_offers returns, in input order, exactly the first candidate of
\* each (year, model, monthly_payment) key of its input, and deduping again
\* changes nothing.
C12_DedupeKeepsFirstOfEachKey ==
    call.op = "dedupe_offers" =>
        LET first == {k \in 1..Len(call.arg) :
                         \A j \in 1..(k - 1) : DupKey(call.arg[j]) # DupKey(call.arg[k])}
        IN /\ call.out = PickFrom(call.arg, first, 1)
           /\ dedupe_offers(call.out) = call.out

\* C12 witness: three candidates, the second with the first one's key and
\* another trim, the third with a new key; the first and third are returned
C12_Witness ==
    /\ call.op = "dedupe_offers"
    /\ Len(call.arg) = 3
    /\ DupKey(call.arg[1]) = DupKey(call.arg[2])
    /\ call.arg[1].trim # call.arg[2].trim
    /\ DupKey(call.arg[3]) # DupKey(call.arg[1])
    /\ call.out = <<call.arg[1], call.arg[3]>>

\* the canonical lease terms as the specification lists them
CanonicalTerms == {24, 27, 30, 33, 36, 39, 42, 48, 60, 72}

\* a term within 3 of a canonical term
NearCanonical(t) == \E c \in CanonicalTerms : Abs(c - t) <= 3

\* C13: clean_offer is idempotent: cleaning a cleaned candidate gives the
\* same candidate, field by field, the normalized model included.
C13_CleanIdempotent ==
    call.op = "clean_offer" => clean_offer(call.out) = call.out

\* C14: for an integer term t within 3 of a canonical term, validate_offer
\* reports no term error and clean_offer sets term_months to a canonical term
\* at minimal distance from t; for t more than 3 from every canonical term,
\* validate_offer rejects the candidate.
C14_TermSnapsToNearest ==
    /\ call.op = "validate_offer" /\ call.arg \in TermOffers =>
           LET t == call.arg.term_months.v
           IN IF NearCanonical(t)
              THEN \A k \in 1..Len(call.out.errors) :
                       call.out.errors[k] # "Invalid term_months"
              ELSE ~call.out.is_valid
    /\ call.op = "clean_offer" /\ call.arg \in TermOffers =>
           LET t == call.arg.term_months.v
           IN NearCanonical(t) =>
                  /\ call.out.term_months # Null
                  /\ call.out.term_months.v \in CanonicalTerms
                  /\ \A c \in CanonicalTerms :
                         Abs(call.out.term_months.v - t) <= Abs(c - t)

\* C14 witness: a term of 47 months cleaned to 48
C14_Witness ==
    /\ call.op = "clean_offer"
    /\ call.arg \in TermOffers
    /\ call.arg.term_months = Num(47)
    /\ call.out.term_months = Num(48)

C16_VocabularyNamesKept ==
    /\ call.op = "normalize_model_name" =>
           \A k \in 1..Len(ALL_MODELS) :
               Lower(call.arg) = Lower(ALL_MODELS[k]) => call.out = Str(ALL_MODELS[k])
    /\ call.op = "clean_offer" /\ call.arg \in ModelOffers =>
           \A k \in 1..Len(ALL_MODELS) :
               call.arg.model = Str(ALL_MODELS[k]) => call.out.model = call.arg.model

\* the result of the extractor registered for a platform
RunExtractor(platform, page) ==
    CASE platform = "octane" -> extract_octane(page)
      [] platform = "dealeron_gemini" -> extract_dealeron_gemini(page)
      [] platform = "dealerinspire" -> extract_dealerinspire(page)

\* C17: with an override recorded for the dealer slug, extract_with_css runs
\* the override's extractor whatever markers the page shows; detection picks
\* the extractor only without an override; with neither the result is empty.
C17_OverrideBeforeDetection ==
    call.op = "extract_with_css" /\ ~call.arg[2].soup_raises =>
        LET dealer_slug == call.arg[1]
            page == call.arg[2]
        IN IF dealer_slug \in DOMAIN DEALER_PLATFORM_OVERRIDES
           THEN call.out = RunExtractor(DEALER_PLATFORM_OVERRIDES[dealer_slug], page)
           ELSE IF detect_platform(page) # NoPlatform
           THEN call.out = RunExtractor(detect_platform(page), page)
           ELSE call.out = <<>>

\* C17 witness: a dealer overridden to DealerInspire on a page that shows the
\* Octane marker and holds containers of both: the DealerInspire result
C17_Witness ==
    /\ call.op = "extract_with_css"
    /\ call.arg[1] = "airport-marina-honda"
    /\ detect_platform(call.arg[2]) = "octane"
    /\ call.out # <<>>
    /\ call.out = extract_dealerinspire(call.arg[2])
    /\ call.out # extract_octane(call.arg[2])
    /\ extract_octane(call.arg[2]) # <<>>

\* an extract_offers call that reached the keyword pre-check: the structural
\* path gave nothing and the cleaned text has at least 100 characters
ReachedPrecheck ==
    /\ call.op = "extract_offers"
    /\ call.out.path \notin {"css", "raise"}
    /\ Len(call.arg[1].text) >= 100

\* the keywords of the list present in the lowered text
KeywordsPresent(text) ==
    {i \in 1..Len(OFFER_KEYWORDS) : Contains(Lower(text), Lower(OFFER_KEYWORDS[i]))}

\* C18 as stated: the pre-check passes and the backend is invoked exactly
\* when the occurrences of the offer keywords in the cleaned text, repeats of
\* one keyword each counting, total at least 3.
C18_PassesOnThreeOccurrences ==
    ReachedPrecheck =>
        (call.out.calls = 1 <=> keyword_occurrences(call.arg[1].text) >= 3)

\* C18 amended: when structural extraction yields nothing, the pre-check
\* passes and the backend is invoked exactly when at least 3 different
\* keywords of the list occur in the lowered cleaned text; repeats of one
\* keyword count once.
C18_PassesOnThreeDistinctKeywords ==
    ReachedPrecheck =>
        /\ call.out.calls = 1 <=> Cardinality(KeywordsPresent(call.arg[1].text)) >= 3
        /\ call.out.calls = 0 => call.out.offers = <<>> /\ call.out.path = "precheck"

\* C18 witness: a text with one keyword three times stops at the pre-check
C18_Witness ==
    /\ ReachedPrecheck
    /\ keyword_occurrences(call.arg[1].text) >= 3
    /\ Cardinality(KeywordsPresent(call.arg[1].text)) = 1
    /\ call.out.path = "precheck"
    /\ call.out.calls = 0

\* a reply whose text is no JSON list and no object with an "offers" key
\* once a json code fence around it is removed
Unparsable(reply) ==
    \/ reply.shape \in {"other_obj", "invalid"}
    \/ reply.fence \in {"plain", "prose"}

\* C19: no exception leaves extract_offers once the backend is invoked, and
\* when the backend call fails or its reply cannot be parsed into a list of
\* candidates, extract_offers returns the empty list.
C19_BackendFailureGivesEmptyList ==
    call.op = "extract_offers" /\ call.out.calls = 1 =>
        /\ ~call.out.raised
        /\ call.arg[3].fails \/ Unparsable(call.arg[3].reply) => call.out.offers = <<>>

\* C19 witness: the pre-check passed, the backend call failed, the result is
\* the empty list
C19_Witness ==
    /\ call.op = "extract_offers"
    /\ call.out.calls = 1
    /\ call.arg[3].fails
    /\ ~call.out.raised
    /\ call.out.offers = <<>>

\* C20: parse_json_response returns the candidate list for a bare JSON list,
\* an object with an "offers" key, and either of them wrapped in a code
\* fence with or without a language tag; for every other response text it
\* returns an empty list.
C20_AcceptedShapesParsed ==
    call.op = "parse_json_response" =>
        IF /\ call.arg.shape \in {"list", "offers_obj"}
           /\ call.arg.fence \in {"none", "json", "plain", "tight"}
        THEN call.out = call.arg.items
        ELSE call.out = <<>>

\* the positions of a strategy in the order of tries
TriesOf(tried, strategy) == {i \in 1..Len(tried) : tried[i] = strategy}

CardCandidates(platform, c) ==
    CASE platform = "octane" -> octane_card(c)
      [] platform = "dealeron_gemini" -> dealeron_card(c)
      [] platform = "dealerinspire" -> dealerinspire_card(c)

RECURSIVE CandidatesOf(_, _)
\* the candidates of the containers, in page order
CandidatesOf(platform, cards) ==
    IF Len(cards) = 0 THEN <<>>
    ELSE CardCandidates(platform, Head(cards)) \o CandidatesOf(platform, Tail(cards))

\* C22: in each platform extractor a container whose parsing raises is
\* skipped alone: the result is the deduplicated candidates of all the other
\* containers, in page order.
C22_RaisingContainerSkippedAlone ==
    call.op = "extractor" =>
        call.out = dedupe_offers(CandidatesOf(call.arg.platform,
                       SelectSeq(call.arg.cards, LAMBDA c : ~c.raises)))

\* C22 witness: a raising container between two others, both of which give
\* their candidate
C22_Witness ==
    /\ call.op = "extractor"
    /\ Len(call.arg.cards) = 3
    /\ ~call.arg.cards[1].raises
    /\ call.arg.cards[2].raises
    /\ ~call.arg.cards[3].raises
    /\ Len(call.out) = 2
    /\ call.out[2]["source_anchor"] = call.arg.cards[3].id

\* what a card gives when the text-embedded sub-form is applied whenever the
\* structured sub-form yields no candidate
StructuredThenText(c) ==
    IF _extract_di_structured(c) # <<>> THEN _extract_di_structured(c)
    ELSE _extract_di_text(c)

RECURSIVE FallbackCandidates(_)
FallbackCandidates(cards) ==
    IF Len(cards) = 0 THEN <<>>
    ELSE StructuredThenText(Head(cards)) \o FallbackCandidates(Tail(cards))

\* C23: extract_dealerinspire tries the structured sub-form on each card and,
\* whenever it yields no candidate for the card (a card with an offerrate
\* element holding no payment included), applies the text-embedded sub-form
\* to the same card.
C23_TextFormAfterEmptyStructured ==
    call.op = "extractor" /\ call.arg.platform = "dealerinspire" =>
        call.out = dedupe_offers(FallbackCandidates(
                       SelectSeq(call.arg.cards, LAMBDA c : ~c.raises)))

\* a container priced in dollars that shows no rate pattern and holds no
\* lease or finance tag
UntaggedDollarCard(c) ==
    /\ ~c.price_pct
    /\ ~c.subtext_apr
    /\ ~c.lease_word
    /\ ~c.finance_word

\* C24: in every platform extractor a container priced in dollars, with no
\* rate or percentage pattern and no lease or finance tag, is classified
\* 'lease'; 'finance' is given only on a rate pattern or a finance tag.
C24_DollarAmountMeansLease ==
    call.op = "extractor" /\ Len(call.arg.cards) = 1 /\ Len(call.out) = 1 =>
        LET c == call.arg.cards[1]
            o == call.out[1]
        IN /\ UntaggedDollarCard(c) => o["offer_type"] = Str("lease")
           /\ o["offer_type"] = Str("finance")
                  => c.price_pct \/ c.subtext_apr \/ c.finance_word

\* C25: an Octane container whose price element shows a percentage R% (or
\* whose subtext says 'apr') gives a finance candidate with apr = R as
\* written and no monthly payment; any other container gives a lease
\* candidate with the dollar amount as monthly payment, no apr, the term
\* before 'Months' and the amount before 'due at signing'.
C25_OctaneFieldsAsWritten ==
    call.op = "extract_octane" =>
        /\ Len(call.out) = 1
        /\ LET a == call.arg
               o == call.out[1]
           IN IF a.price.pct \/ Contains(Lower(a.subtext), "apr")
              THEN /\ o["offer_type"] = Str("finance")
                   /\ o["apr"] = Num(a.price.written)
                   /\ o["monthly_payment"] = Null
              ELSE /\ o["offer_type"] = Str("lease")
                   /\ o["monthly_payment"] = Num(a.price.written)
                   /\ o["apr"] = Null
                   /\ a.details.term # NoneWritten => o["term_months"] = Num(a.details.term)
                   /\ a.details.down # NoneWritten => o["down_payment"] = Num(a.details.down)

\* a container from which no payment and no rate can be read
Unreadable(c) == c.price_num = Null /\ c.text_num = Null

\* C26: every candidate of a platform extractor has extraction_method 'css',
\* a confidence between 0.80 and 0.90 and a monthly payment or an APR; a
\* container from which neither can be read contributes no candidate.
C26_StructuralCandidatesWellFormed ==
    call.op \in {"extractor", "extract_octane"} =>
        /\ \A i \in 1..Len(call.out) :
              /\ call.out[i]["extraction_method"] = Str("css")
              /\ IsNum(call.out[i]["confidence"])
              /\ call.out[i]["confidence"].v >= 80
              /\ call.out[i]["confidence"].v <= 90
              /\ call.out[i]["monthly_payment"] # Null \/ call.out[i]["apr"] # Null
        /\ call.op = "extractor"
              => Len(call.out) <= Cardinality({i \in 1..Len(call.arg.cards) :
                                                  ~Unreadable(call.arg.cards[i])})

\* C26 witness: an Octane page with an unreadable container and a readable
\* one gives the one candidate of the readable container
C26_Witness ==
    /\ call.op = "extractor"
    /\ call.arg.platform = "octane"
    /\ Len(call.arg.cards) = 2
    /\ Unreadable(call.arg.cards[1])
    /\ ~call.arg.cards[1].raises
    /\ Len(call.out) = 1
    /\ call.out[1]["monthly_payment"] = call.arg.cards[2].price_num
    /\ call.out[1]["extraction_method"] = Str("css")

\* C27: a structural candidate's year and term_months are the values the
\* parsers read from the container; a field the parsers did not find stays
\* empty, so that a yearless candidate is rejected by validate_offer, and no
\* default takes its place.
C27_YearAndTermNotGuessed ==
    call.op = "extractor" /\ Len(call.arg.cards) = 1 /\ Len(call.out) = 1 =>
        /\ call.out[1]["year"] = call.arg.cards[1].year
        /\ call.out[1]["term_months"] = call.arg.cards[1].term
        /\ call.arg.cards[1].year = Null => ~validate_offer(call.out[1])

\* a candidate as returned: the parsed object, with at most an image_url
\* added when its model is a string that has an image on the page
ReturnedAs(returned, parsed, page) ==
    LET model == GetD(parsed, "model", Null)
        has_image == IsStr(model) /\ image_key(model.v) \in DOMAIN extract_vehicle_images(page)
    IN IF has_image
       THEN /\ DOMAIN returned = DOMAIN parsed \cup {"image_url"}
            /\ \A k \in DOMAIN parsed \ {"image_url"} : returned[k] = parsed[k]
       ELSE returned = parsed

\* C28: on the generative path extract_offers returns every object of the
\* parsed backend reply, in order, image attachment adding at most an
\* image_url; a candidate with a null or missing model is returned without
\* an image and costs no other candidate of the reply.
C28_EveryParsedObjectReturned ==
    /\ call.op = "extract_offers"
    /\ call.out.calls = 1
    /\ ~call.arg[3].fails
    => LET parsed == parse_json_response(call.arg[3].reply)
       IN /\ Len(call.out.offers) = Len(parsed)
          /\ \A i \in 1..Len(parsed) : ReturnedAs(call.out.offers[i], parsed[i], call.arg[1])

\* C29: for every model name of the image vocabulary, a non-icon image
\* whose URL or alt text contains the name is recorded for the model by
\* extract_vehicle_images, and a generative candidate of the model gets its
\* URL as image_url.
C29_NamedModelGetsImage ==
    call.op = "extract_vehicle_images" /\ ~call.arg.img.small =>
        /\ image_key(call.arg.model) \in DOMAIN call.out.model_images
        /\ call.out.model_images[image_key(call.arg.model)] = call.arg.img.src
        /\ Len(call.out.offers) = 1
        /\ "image_url" \in DOMAIN call.out.offers[1]
        /\ call.out.offers[1]["image_url"] = Str(call.arg.img.src)

NumericFields == {"monthly_payment", "down_payment", "apr", "annual_mileage",
                  "msrp", "selling_price"}

\* C30: for a candidate that passes validate_offer, clean_offer and
\* save_offers keep the value of every numeric field that is present, zero
\* included, so the persisted offer still has a monthly payment or an APR
\* when the candidate had one.
C30_NumericValuesKept ==
    call.op = "persist" =>
        /\ \A k \in NumericFields :
              IsNum(call.arg[k]) => /\ call.out.cleaned[k] = call.arg[k]
                                    /\ call.out.row[k] = call.arg[k]
        /\ call.arg["monthly_payment"] # Null \/ call.arg["apr"] # Null
              => call.out.row["monthly_payment"] # Null \/ call.out.row["apr"] # Null

====
